---- MODULE Spec2Model ----
(***************************************************************************)
(* Model of the audio-duplicates core: the fingerprint comparator          *)
(* (src/src/fingerprint_comparator.cpp) and the inverted index with        *)
(* sequential and parallel duplicate-group discovery                       *)
(* (src/src/fingerprint_index.cpp).                                        *)
(*                                                                         *)
(* Representation.  A uint32 sub-fingerprint is the set of the positions   *)
(* (0 = least significant, 31 = most significant) of its 1 bits, so that   *)
(* a ^ b is the symmetric difference, POPCOUNT is the cardinality and      *)
(* value & 0xFFFF keeps the positions 0..15.  A double that the code       *)
(* computes as a quotient of two counts is the exact fraction              *)
(* <<numerator, denominator>> with denominator > 0.  C++ vectors are       *)
(* sequences; C++ index i is position i + 1.                               *)
(***************************************************************************)
EXTENDS Integers, Sequences, FiniteSets, TLC

(***************************************************************************)
(* Exact fractions standing for the code's doubles.                        *)
(***************************************************************************)
FracLe(a, b) == a[1] * b[2] <= b[1] * a[2]

FracLt(a, b) == a[1] * b[2] < b[1] * a[2]

FracEq(a, b) == a[1] * b[2] = b[1] * a[2]

RECURSIVE GCD(_, _)
GCD(a, b) == IF b = 0 THEN a ELSE GCD(b, a % b)

\* the fraction in lowest terms
Norm(a) == LET g == GCD(a[1], a[2]) IN <<a[1] \div g, a[2] \div g>>

FracAdd(a, b) == Norm(<<a[1] * b[2] + b[1] * a[2], a[2] * b[2]>>)

Zero == <<0, 1>>

One == <<1, 1>>

\* std::max(0.0, std::min(1.0, threshold))
Clamp01(t) == IF FracLt(t, Zero) THEN Zero ELSE IF FracLt(One, t) THEN One ELSE t

Max(a, b) == IF a >= b THEN a ELSE b

Min(a, b) == IF a <= b THEN a ELSE b

Abs(a) == IF a < 0 THEN -a ELSE a

(***************************************************************************)
(* FingerprintComparator: defaults (fingerprint_comparator.h:57-61).       *)
(***************************************************************************)
DEFAULT_SIMILARITY_THRESHOLD == <<85, 100>>

DEFAULT_BIT_ERROR_THRESHOLD == <<15, 100>>

DEFAULT_MINIMUM_OVERLAP == 10

DEFAULT_MAX_ALIGNMENT_OFFSET == 360

DEFAULT_ALIGNMENT_STEP == 6

DEFAULT_HASH_THRESHOLD == 5

\* FingerprintComparator::FingerprintComparator()
NewComparator ==
    [similarity_threshold |-> DEFAULT_SIMILARITY_THRESHOLD,
     bit_error_threshold |-> DEFAULT_BIT_ERROR_THRESHOLD,
     minimum_overlap |-> DEFAULT_MINIMUM_OVERLAP,
     max_alignment_offset |-> DEFAULT_MAX_ALIGNMENT_OFFSET,
     alignment_step |-> DEFAULT_ALIGNMENT_STEP]

\* The comparator's setters.
cmp_set_similarity_threshold(c, t) == [c EXCEPT !.similarity_threshold = Clamp01(t)]

cmp_set_bit_error_threshold(c, t) == [c EXCEPT !.bit_error_threshold = Clamp01(t)]

cmp_set_minimum_overlap(c, n) == [c EXCEPT !.minimum_overlap = n]

cmp_set_max_alignment_offset(c, n) == [c EXCEPT !.max_alignment_offset = Max(0, n)]

cmp_set_alignment_step(c, n) == [c EXCEPT !.alignment_step = Max(1, n)]

(***************************************************************************)
(* Bit operations on uint32 values.                                        *)
(***************************************************************************)
\* a ^ b
Xor(a, b) == (a \ b) \cup (b \ a)

\* POPCOUNT(a ^ b)
POPCOUNT_XOR(a, b) == Cardinality(Xor(a, b))

\* value & 0xFFFF, the uint16 hash
Low16(value) == value \cap (0..15)

count_matching_bits(a, b) == 32 - POPCOUNT_XOR(a, b)

RECURSIVE SumOver(_, _, _)
\* sum of f[i] for i in lo..hi-1
SumOver(f, lo, hi) == IF lo >= hi THEN 0 ELSE f[lo] + SumOver(f, lo + 1, hi)

\* The number of iterations of the loop shared by
\* calculate_similarity_at_offset and calculate_bit_error_rate:
\* i runs from start1 while i < end1 and j < end2.
OverlapCount(fp1, fp2, offset) ==
    Max(0, Min(Min(Len(fp1), Len(fp2) - offset) - Max(0, -offset),
               Min(Len(fp2), Len(fp1) + offset) - Max(0, offset)))

RECURSIVE ErrorBits(_, _, _, _, _)
\* POPCOUNT(fp1[i] ^ fp2[j]) summed over n iterations from i, j (C++ indices);
\* the sum of the first n \div 2 iterations plus the sum of the others
ErrorBits(fp1, fp2, i, j, n) ==
    IF n <= 0 THEN 0
    ELSE IF n = 1 THEN POPCOUNT_XOR(fp1[i + 1], fp2[j + 1])
    ELSE ErrorBits(fp1, fp2, i, j, n \div 2)
         + ErrorBits(fp1, fp2, i + (n \div 2), j + (n \div 2), n - (n \div 2))

RECURSIVE MatchingBits(_, _, _, _, _)
\* count_matching_bits(fp1[i], fp2[j]) summed over n iterations from i, j
MatchingBits(fp1, fp2, i, j, n) ==
    IF n <= 0 THEN 0
    ELSE IF n = 1 THEN count_matching_bits(fp1[i + 1], fp2[j + 1])
    ELSE MatchingBits(fp1, fp2, i, j, n \div 2)
         + MatchingBits(fp1, fp2, i + (n \div 2), j + (n \div 2), n - (n \div 2))

\* matching_bits / total_comparisons, or 1.0 without comparisons
SimilarityOf_one_without_comparisons(matching_bits, total_comparisons) ==
    IF total_comparisons > 0 THEN <<matching_bits, total_comparisons>> ELSE <<1, 1>>

\* matching_bits / total_comparisons, or 0.0 without comparisons
SimilarityOf(matching_bits, total_comparisons) ==
    IF total_comparisons > 0 THEN <<matching_bits, total_comparisons>> ELSE Zero

\* error_bits / total_comparisons, or 1.0 without comparisons
ErrorRateOf(error_bits, total_comparisons) ==
    IF total_comparisons > 0 THEN <<error_bits, total_comparisons>> ELSE One

calculate_similarity_at_offset(fp1, fp2, offset) ==
    SimilarityOf(MatchingBits(fp1, fp2, Max(0, -offset), Max(0, offset),
                              OverlapCount(fp1, fp2, offset)),
                 32 * OverlapCount(fp1, fp2, offset))

calculate_bit_error_rate(fp1, fp2, offset) ==
    ErrorRateOf(ErrorBits(fp1, fp2, Max(0, -offset), Max(0, offset),
                          OverlapCount(fp1, fp2, offset)),
                32 * OverlapCount(fp1, fp2, offset))

\* value & 0xFFFF for every entry
extract_hash_subset(fp) == [i \in 1..Len(fp) |-> Low16(fp[i])]

HashSet(hashes) == {hashes[i] : i \in 1..Len(hashes)}

\* intersection / union_size, or 0.0 for an empty union
Jaccard(intersection, union_size) ==
    IF union_size > 0 THEN <<intersection, union_size>> ELSE Zero

JaccardOfSets(set1, set2) ==
    Jaccard(Cardinality(set1 \cap set2), Cardinality(set1 \cup set2))

\* Jaccard similarity of the two hash sets
\* (union_size = |set1| + |set2| - intersection = |set1 \cup set2|)
calculate_hash_overlap(hashes1, hashes2) ==
    IF Len(hashes1) = 0 \/ Len(hashes2) = 0 THEN Zero
    ELSE JaccardOfSets(HashSet(hashes1), HashSet(hashes2))

\* overlap >= similarity_threshold_ * 0.6
quick_filter(c, fp1, fp2) ==
    FracLe(<<c.similarity_threshold[1] * 6, c.similarity_threshold[2] * 10>>,
           calculate_hash_overlap(extract_hash_subset(fp1), extract_hash_subset(fp2)))

(***************************************************************************)
(* Alignment search.                                                       *)
(***************************************************************************)
\* A std::vector filled once, element by element: the same function, every
\* value computed when the vector is built rather than at each read
Stored(vector) == <<>> @@ vector

\* Votes for every offset j - i (C++ indices) of a pair of equal 16-bit hashes
\* within the search range; histogram index = offset + max_alignment_offset_,
\* indices 0 .. 2 * max_alignment_offset_.  The bin of index idx counts the
\* pairs (i, j) with j = i + idx - max_alignment_offset_.
HistogramOf(max_offset, hashes1, hashes2) ==
    Stored([idx \in 0..(2 * max_offset) |->
        Cardinality({i \in 1..Len(hashes1) :
                        /\ (i + idx - max_offset) \in 1..Len(hashes2)
                        /\ hashes1[i] = hashes2[i + idx - max_offset]})])

build_offset_histogram(c, fp1, fp2) ==
    HistogramOf(c.max_alignment_offset, extract_hash_subset(fp1), extract_hash_subset(fp2))

\* kernel_size = static_cast<int>(3 * sigma) with sigma = 2.0
KernelSize == 6

\* std::exp(-(j * j) / (2 * sigma * sigma)) with sigma = 2.0, in thousandths
GaussWeight(j) ==
    CASE Abs(j) = 0 -> 1000
      [] Abs(j) = 1 -> 882
      [] Abs(j) = 2 -> 607
      [] Abs(j) = 3 -> 325
      [] Abs(j) = 4 -> 135
      [] Abs(j) = 5 -> 44
      [] OTHER -> 11

RECURSIVE KernelSum(_, _, _, _)
\* sum (weighted = TRUE) or weight_sum (weighted = FALSE) of the kernel loop at
\* bin i, from kernel position j on; bins outside the histogram are skipped
KernelSum(histogram, i, j, weighted) ==
    IF j > KernelSize THEN 0
    ELSE (IF (i + j) \in DOMAIN histogram
          THEN (IF weighted THEN histogram[i + j] ELSE 1) * GaussWeight(j)
          ELSE 0)
         + KernelSum(histogram, i, j + 1, weighted)

\* filtered[i] = sum / weight_sum (weight_sum > 0: j = 0 is always in range)
apply_gaussian_filter(histogram) ==
    Stored([i \in DOMAIN histogram |->
        <<KernelSum(histogram, i, -KernelSize, TRUE),
          KernelSum(histogram, i, -KernelSize, FALSE)>>])

\* Local maxima above 0.1, as a set of histogram indices (none when the
\* histogram has fewer than 3 bins)
PeakSet(filtered) ==
    {i \in DOMAIN filtered :
        /\ (i - 1) \in DOMAIN filtered
        /\ (i + 1) \in DOMAIN filtered
        /\ FracLt(filtered[i - 1], filtered[i])
        /\ FracLt(filtered[i + 1], filtered[i])
        /\ FracLt(<<1, 10>>, filtered[i])}

\* The peaks that the sort by magnitude may put first: those of the highest value
TopPeaks(filtered, peaks) ==
    {i \in peaks : \A k \in peaks : FracLe(filtered[k], filtered[i])}

\* peaks[0] after the sort; among peaks of equal magnitude the one of lowest
\* index (the order an insertion sort of the index-ordered list leaves)
FirstOf(top) == CHOOSE i \in top : \A k \in top : i <= k

PeakOffset(max_offset, filtered, peaks) ==
    IF peaks = {} THEN 0 ELSE FirstOf(TopPeaks(filtered, peaks)) - max_offset

FilteredPeakOffset(max_offset, filtered) ==
    PeakOffset(max_offset, filtered, PeakSet(filtered))

find_best_alignment_histogram(c, fp1, fp2) ==
    FilteredPeakOffset(c.max_alignment_offset,
                       apply_gaussian_filter(build_offset_histogram(c, fp1, fp2)))

\* The similarity at every offset the coarse loop visits: iteration k
\* (k = 0, 1, ...) is at offset -max_alignment_offset_ + k * alignment_step_
ScanSimilarities(c, fp1, fp2) ==
    Stored([k \in 0..((2 * c.max_alignment_offset) \div c.alignment_step) |->
               calculate_similarity_at_offset(
                   fp1, fp2, -c.max_alignment_offset + k * c.alignment_step)])

\* The iteration whose offset the coarse loop ends with: the loop replaces
\* best_offset only when the similarity is strictly higher than
\* best_similarity, so it ends with the first iteration of the highest
\* similarity
FirstHighest(similarities) ==
    CHOOSE k \in DOMAIN similarities :
        /\ \A m \in DOMAIN similarities : FracLe(similarities[m], similarities[k])
        /\ \A m \in 0..(k - 1) : FracLt(similarities[m], similarities[k])

\* best_offset after the coarse loop; it stays at its initial 0 when no
\* visited offset has a similarity above the initial best_similarity 0.0
ScannedOffset(c, similarities) ==
    IF \A k \in DOMAIN similarities : ~FracLt(Zero, similarities[k])
    THEN 0
    ELSE -c.max_alignment_offset + FirstHighest(similarities) * c.alignment_step

find_best_alignment_correlation(c, fp1, fp2) ==
    ScannedOffset(c, ScanSimilarities(c, fp1, fp2))

RECURSIVE FineTune(_, _, _, _, _, _)
RECURSIVE FineTuneStep(_, _, _, _, _, _, _)
\* the fine-tune loop: its bound best_offset + 2 and its test
\* fine_offset != best_offset read the current best_offset on every iteration
FineTune(c, fp1, fp2, fine_offset, best_similarity, best_offset) ==
    IF fine_offset > best_offset + 2 THEN best_offset
    ELSE IF Abs(fine_offset) <= c.max_alignment_offset /\ fine_offset # best_offset
         THEN FineTuneStep(c, fp1, fp2, fine_offset, best_similarity, best_offset,
                           calculate_similarity_at_offset(fp1, fp2, fine_offset))
         ELSE FineTune(c, fp1, fp2, fine_offset + 1, best_similarity, best_offset)

FineTuneStep(c, fp1, fp2, fine_offset, best_similarity, best_offset, similarity) ==
    IF FracLt(best_similarity, similarity)
    THEN FineTune(c, fp1, fp2, fine_offset + 1, similarity, fine_offset)
    ELSE FineTune(c, fp1, fp2, fine_offset + 1, best_similarity, best_offset)

\* The correlation's estimate unless the histogram's has strictly higher
\* similarity
BetterOffset_correlation_on_tie(fp1, fp2, histogram_offset, correlation_offset) ==
    IF FracLt(calculate_similarity_at_offset(fp1, fp2, correlation_offset),
              calculate_similarity_at_offset(fp1, fp2, histogram_offset))
    THEN histogram_offset ELSE correlation_offset

\* The choice between the two estimates: the histogram's unless the
\* correlation's has strictly higher similarity
BetterOffset(fp1, fp2, histogram_offset, correlation_offset) ==
    IF FracLe(calculate_similarity_at_offset(fp1, fp2, correlation_offset),
              calculate_similarity_at_offset(fp1, fp2, histogram_offset))
    THEN histogram_offset ELSE correlation_offset

\* The offset the fine-tune loop starts from
CoarseOffset(c, fp1, fp2) ==
    BetterOffset(fp1, fp2, find_best_alignment_histogram(c, fp1, fp2),
                 find_best_alignment_correlation(c, fp1, fp2))

FineTuneFrom(c, fp1, fp2, best_offset) ==
    FineTune(c, fp1, fp2, best_offset - 2,
             calculate_similarity_at_offset(fp1, fp2, best_offset), best_offset)

find_best_alignment(c, fp1, fp2) == FineTuneFrom(c, fp1, fp2, CoarseOffset(c, fp1, fp2))

(***************************************************************************)
(* compare                                                                 *)
(***************************************************************************)
\* The value a negative int takes when stored in a size_t (2^64 - x): any
\* value above every length and every minimum_overlap of the model.
SizeTWrap == 1000000

DefaultMatchResult ==
    [similarity_score |-> Zero, best_offset |-> 0, matched_segments |-> 0,
     bit_error_rate |-> One, is_duplicate |-> FALSE]

\* size_t overlap_end = std::min(int, int)
ToSizeT(n) == IF n < 0 THEN SizeTWrap ELSE n

SegmentsBetween(overlap_start, overlap_end) ==
    IF overlap_end > overlap_start THEN overlap_end - overlap_start ELSE 0

MatchedSegments(fp1, fp2, best_offset) ==
    SegmentsBetween(Max(0, -best_offset), ToSizeT(Min(Len(fp1), Len(fp2) - best_offset)))

\* is_duplicate without the test of the bit error rate
IsDuplicate_without_bit_error(c, similarity_score, bit_error_rate, matched_segments) ==
    /\ FracLe(c.similarity_threshold, similarity_score)
    /\ matched_segments >= c.minimum_overlap

\* is_duplicate from the three thresholds
IsDuplicate(c, similarity_score, bit_error_rate, matched_segments) ==
    /\ FracLe(c.similarity_threshold, similarity_score)
    /\ FracLe(bit_error_rate, c.bit_error_threshold)
    /\ matched_segments >= c.minimum_overlap

MatchResult(c, best_offset, similarity_score, bit_error_rate, matched_segments) ==
    [similarity_score |-> similarity_score,
     best_offset |-> best_offset,
     matched_segments |-> matched_segments,
     bit_error_rate |-> bit_error_rate,
     is_duplicate |-> IsDuplicate(c, similarity_score, bit_error_rate, matched_segments)]

\* compare once the best offset is known
CompareAt(c, fp1, fp2, best_offset) ==
    MatchResult(c, best_offset,
                calculate_similarity_at_offset(fp1, fp2, best_offset),
                calculate_bit_error_rate(fp1, fp2, best_offset),
                MatchedSegments(fp1, fp2, best_offset))

compare(c, fp1, fp2) ==
    IF Len(fp1) < c.minimum_overlap \/ Len(fp2) < c.minimum_overlap
    THEN DefaultMatchResult
    ELSE IF ~quick_filter(c, fp1, fp2) THEN DefaultMatchResult
    ELSE CompareAt(c, fp1, fp2, find_best_alignment(c, fp1, fp2))

(***************************************************************************)
(* Inputs and bounds of the model.                                         *)
(***************************************************************************)
\* Fingerprint data used as inputs.
\* FpA = [0x00000001, 0xFFFF0002]; FpB = [0x003F0001, 0xFFFF0002] and
\* FpC = [0x0FC00001, 0xFFFF0002, 0xF0000001] each differ from FpA in six high
\* bits of the first entry (twelve between them), and FpC repeats the hash
\* 0x0001 at its positions 0 and 2; FpD = [0x02100003, 0x40020004] shares no
\* hash with the others.
FpA == << {0}, {1} \cup (16..31) >>

FpB == << {0} \cup (16..21), {1} \cup (16..31) >>

FpC == << {0} \cup (22..27), {1} \cup (16..31), {0} \cup (28..31) >>

FpD == << {0, 1, 20, 25}, {2, 17, 30} >>

\* FpE = [0x00000001, 0x00080002] and FpF = [0x00000010, 0x00040020,
\* 0x00000040, 0x00000080] share no hash; FpF against FpE matches a little
\* better at offset 2 than at 0 and 1, and better still at offset 3.
FpE == << {0}, {1, 19} >>

FpF == << {4}, {5, 18}, {6}, {7} >>

\* A std::unique_ptr<Fingerprint> is <<>> when null and <<data>> otherwise.
NullPtr == <<>>

Ptr(data) == <<data>>

\* (file_path, fingerprint) arguments that add_file accepts
ValidInputs ==
    {[path |-> "a.wav", fp |-> Ptr(FpA)], [path |-> "b.wav", fp |-> Ptr(FpB)],
     [path |-> "c.wav", fp |-> Ptr(FpC)]}

\* fingerprints passed to find_candidates(const Fingerprint&)
QueryFingerprints == {FpA, FpB, FpC, FpD}

\* arguments with a null fingerprint or a fingerprint without entries
InvalidInputs ==
    {[path |-> "null.wav", fp |-> NullPtr], [path |-> "empty.wav", fp |-> Ptr(<<>>)]}

Inputs == ValidInputs \cup InvalidInputs

\* The index holds at most MaxFiles entries.
MaxFiles == 3

\* add_files_batch is called with at most MaxBatch elements.
MaxBatch == 2

\* the elements a batch is made of
BatchInputs ==
    {[path |-> "a.wav", fp |-> Ptr(FpA)], [path |-> "b.wav", fp |-> Ptr(FpB)],
     [path |-> "empty.wav", fp |-> Ptr(<<>>)]}

\* add_files_batch never reads what follows an invalid element: the batches
\* have one in the last place only
Batches ==
    {batch \in UNION {[1..n -> BatchInputs] : n \in 0..MaxBatch} :
        \A i \in 1..(Len(batch) - 1) : batch[i] \notin InvalidInputs}

\* Arguments of the setters.
HashThresholdArgs == {1}

SimilarityThresholdArgs == {<<80, 100>>}

BitErrorThresholdArgs == {<<20, 100>>}

MaxAlignmentOffsetArgs == {2}

\* The comparator a caller configures through its setters and installs with
\* set_comparator.
CustomComparator ==
    cmp_set_alignment_step(
        cmp_set_max_alignment_offset(cmp_set_minimum_overlap(NewComparator, 2), 2), 1)

ComparatorArgs == {CustomComparator}

(***************************************************************************)
(* FingerprintIndex: state.                                                *)
(***************************************************************************)
VARIABLES
    files,           \* files_: sequence of FileEntry [file_path, fingerprint]
    hash_index,      \* hash_index_: hash -> sequence of IndexEntry [file_id, position]
    hash_threshold,  \* hash_threshold_
    comparator,      \* *comparator_: the comparator's configuration
    call,            \* the last public call: its name, arguments and outcome
    accepted,        \* history: the entries accepted since the index was last empty,
                     \* each with the file_id the call assigned to it
    workers,         \* find_all_duplicates_parallel: per OpenMP thread its place in the
                     \* loop and its locals (file_id, candidates, duplicate_group,
                     \* thread_groups); <<>> while no parallel discovery runs
    processed,       \* find_all_duplicates_parallel: std::vector<bool> processed
    next_file_id,    \* find_all_duplicates_parallel: the iteration the dynamic
                     \* schedule hands out next
    raw_groups,      \* find_all_duplicates_parallel: raw_groups
    threads,         \* calling threads: the call each is in and its place in it;
                     \* <<>> while the index has a single caller
    files_mutex,     \* files_mutex_: the thread that owns it, 0 when free
    index_mutex,     \* index_mutex_: its exclusive owner (0 when none) and the
                     \* number of shared locks each thread holds
    loader,          \* the StreamingAudioLoader: chunk_size_, last_stats_ and the
                     \* streaming call it is in or made last
    pool,            \* the AudioMemoryPool singleton
    heap,            \* the addresses mi_malloc handed out and mi_free has not taken
                     \* back, and whether an address was freed twice
    held             \* the allocations callers of the pool hold, and how many
                     \* allocations they made

indexVars == <<files, hash_index, hash_threshold, comparator, call, accepted>>

parVars == <<workers, processed, next_file_id, raw_groups>>

lockVars == <<threads, files_mutex, index_mutex>>

mediaVars == <<loader, pool, heap, held>>

\* A build that keys the postings by the high half of the value
extract_hashes_high(data) == [i \in 1..Len(data) |-> {b - 16 : b \in data[i] \ (0..15)}]

\* value & 0xFFFF for every entry
extract_hashes(data) == [i \in 1..Len(data) |-> Low16(data[i])]

RECURSIVE BuildFrom(_, _, _, _)
\* the loop of build_hash_index from position pos on
BuildFrom(index, file_id, hashes, pos) ==
    IF pos >= Len(hashes) THEN index
    ELSE LET hash == hashes[pos + 1]
             old == IF hash \in DOMAIN index THEN index[hash] ELSE <<>>
             entry == [file_id |-> file_id, position |-> pos]
             new == [h \in (DOMAIN index) \cup {hash} |->
                        IF h = hash THEN Append(old, entry) ELSE index[h]]
         IN BuildFrom(new, file_id, hashes, pos + 1)

build_hash_index(index, file_id, data) == BuildFrom(index, file_id, extract_hashes(data), 0)

\* A store that puts the new entry in front of the others
AppendEntry_front(fs, file_entry) == <<file_entry>> \o fs

\* files_.push_back(std::move(file_entry))
AppendEntry(fs, file_entry) == Append(fs, file_entry)

FileEntry(path, ptr) == [file_path |-> path, fingerprint |-> ptr[1]]

\* A check that tests the pointer only
InvalidFingerprint_null_only(ptr) == ptr = NullPtr

\* `!fingerprint || fingerprint->data.empty()`
InvalidFingerprint(ptr) == ptr = NullPtr \/ Len(ptr[1]) = 0

\* An id read after the push_back
NextFileId_after_push(fs) == Len(fs) + 1

\* The id given to a new entry: files_.size() before the push_back
NextFileId(fs) == Len(fs)

\* The body shared by add_file and the loop of add_files_batch: build the hash
\* index for the entry, then store it.
StoreEntry(st, in) ==
    LET file_entry == FileEntry(in.path, in.fp)
        file_id == NextFileId(st.files)
    IN [files |-> AppendEntry(st.files, file_entry),
        hash_index |-> build_hash_index(st.hash_index, file_id, file_entry.fingerprint),
        file_ids |-> Append(st.file_ids, file_id),
        accepted |-> Append(st.accepted, [file_id |-> file_id, path |-> in.path,
                                          fingerprint |-> in.fp[1]]),
        thrown |-> FALSE]

RECURSIVE BatchLoop(_, _, _)
\* the loop of add_files_batch from element i on; an invalid element throws and
\* leaves what the earlier elements stored
BatchLoop(st, batch, i) ==
    IF i > Len(batch) THEN st
    ELSE IF InvalidFingerprint(batch[i].fp) THEN [st EXCEPT !.thrown = TRUE]
    ELSE BatchLoop(StoreEntry(st, batch[i]), batch, i + 1)

IndexState ==
    [files |-> files, hash_index |-> hash_index, file_ids |-> <<>>,
     accepted |-> accepted, thrown |-> FALSE]

(***************************************************************************)
(* FingerprintIndex: add_file, add_files_batch.                            *)
(***************************************************************************)
add_file(in) ==
    IF InvalidFingerprint(in.fp)
    THEN /\ call' = [op |-> "add_file", arg |-> in, outcome |-> "invalid_argument"]
         /\ UNCHANGED <<mediaVars, files, hash_index, accepted>>
    ELSE LET st == StoreEntry(IndexState, in)
         IN /\ Len(files) < MaxFiles
            /\ files' = st.files
            /\ hash_index' = st.hash_index
            /\ accepted' = st.accepted
            /\ call' = [op |-> "add_file", arg |-> in, outcome |-> "ok",
                        result |-> st.file_ids[1]]

add_files_batch(batch) ==
    LET st == BatchLoop(IndexState, batch, 1)
    IN /\ Len(st.files) <= MaxFiles
       /\ files' = st.files
       /\ hash_index' = st.hash_index
       /\ accepted' = st.accepted
       /\ call' = IF st.thrown
                  THEN [op |-> "add_files_batch", arg |-> batch,
                        outcome |-> "invalid_argument"]
                  ELSE [op |-> "add_files_batch", arg |-> batch, outcome |-> "ok",
                        result |-> st.file_ids]

AddFile == \E in \in Inputs : add_file(in) /\ UNCHANGED <<mediaVars, parVars, lockVars, hash_threshold, comparator>>

AddFilesBatch ==
    \E batch \in Batches : add_files_batch(batch) /\ UNCHANGED <<mediaVars, parVars, lockVars, hash_threshold, comparator>>

(***************************************************************************)
(* FingerprintIndex: find_candidates.                                      *)
(***************************************************************************)
\* candidate_counts[f]: one vote per (query position, posting of f) pair of
\* equal hash
CandidateCount(index, data, f) ==
    LET query_hashes == extract_hashes(data)
        Votes(hash) ==
            IF hash \in DOMAIN index
            THEN Cardinality({k \in 1..Len(index[hash]) : index[hash][k].file_id = f})
            ELSE 0
    IN SumOver([i \in 1..Len(query_hashes) |-> Votes(query_hashes[i])],
               1, Len(query_hashes) + 1)

\* the file_ids that occur in at least one posting list
PostedFiles(index) ==
    UNION {{index[h][k].file_id : k \in 1..Len(index[h])} : h \in DOMAIN index}

\* the keys of candidate_counts, whatever their count
CandidateSet_any_count(index, threshold, data) ==
    {f \in PostedFiles(index) : CandidateCount(index, data, f) >= 1}

\* the keys of candidate_counts whose count reaches hash_threshold_
CandidateSet(index, threshold, data) ==
    {f \in PostedFiles(index) :
        /\ CandidateCount(index, data, f) >= 1
        /\ CandidateCount(index, data, f) >= threshold}

Perms(S) == {p \in [1..Cardinality(S) -> S] : \A x \in S : \E i \in DOMAIN p : p[i] = x}

\* What std::sort by count (highest first) may return: every arrangement of
\* the candidates with non-increasing counts
find_candidates(index, threshold, data) ==
    {p \in Perms(CandidateSet(index, threshold, data)) :
        \A i \in 1..(Len(p) - 1) :
            CandidateCount(index, data, p[i]) >= CandidateCount(index, data, p[i + 1])}

\* find_candidates(size_t file_id)
find_candidates_by_id(fs, index, threshold, file_id) ==
    IF file_id >= Len(fs) THEN {<<>>}
    ELSE find_candidates(index, threshold, fs[file_id + 1].fingerprint)

(***************************************************************************)
(* FingerprintIndex: find_all_duplicates (sequential).                     *)
(***************************************************************************)
\* A test that does not look at the processed bitmap
CandidateEligible_ignoring_processed(file_id, candidate_id, bitmap) ==
    candidate_id # file_id

\* The test a candidate passes before it is compared with the seed
CandidateEligible(file_id, candidate_id, bitmap) ==
    candidate_id # file_id /\ ~bitmap[candidate_id]

\* An admission that takes the quick filter's answer for the comparison's
IsDuplicateOfSeed_quick_only(cmp, fs, file_id, candidate_id) ==
    quick_filter(cmp, fs[file_id + 1].fingerprint, fs[candidate_id + 1].fingerprint)

\* The comparison that admits a candidate to the seed's group
IsDuplicateOfSeed(cmp, fs, file_id, candidate_id) ==
    compare(cmp, fs[file_id + 1].fingerprint, fs[candidate_id + 1].fingerprint).is_duplicate

\* After a seed's group is decided: mark the whole group when it has more than
\* one member, otherwise only the seed
MarkProcessed(bitmap, file_id, duplicate_group) ==
    IF Cardinality(duplicate_group) > 1
    THEN [id \in DOMAIN bitmap |-> bitmap[id] \/ id \in duplicate_group]
    ELSE [bitmap EXCEPT ![file_id] = TRUE]

find_duplicates_for_file(fs, index, threshold, cmp, file_id, st) ==
    IF st.processed[file_id] THEN st
    ELSE LET candidates == CandidateSet(index, threshold, fs[file_id + 1].fingerprint)
             duplicate_group ==
                 {file_id} \cup
                 {candidate_id \in candidates :
                     /\ CandidateEligible(file_id, candidate_id, st.processed)
                     /\ IsDuplicateOfSeed(cmp, fs, file_id, candidate_id)}
         IN [groups |-> IF Cardinality(duplicate_group) > 1
                        THEN Append(st.groups, duplicate_group) ELSE st.groups,
             processed |-> MarkProcessed(st.processed, file_id, duplicate_group)]

RECURSIVE DiscoverFrom(_, _, _, _, _, _)
\* the loop of find_all_duplicates from file_id on
DiscoverFrom(fs, index, threshold, cmp, file_id, st) ==
    IF file_id >= Len(fs) THEN st
    ELSE DiscoverFrom(fs, index, threshold, cmp, file_id + 1,
                      IF ~st.processed[file_id]
                      THEN find_duplicates_for_file(fs, index, threshold, cmp, file_id, st)
                      ELSE st)

\* raw_groups of find_all_duplicates
SequentialRawGroups(fs, index, threshold, cmp) ==
    DiscoverFrom(fs, index, threshold, cmp, 0,
                 [groups |-> <<>>, processed |-> [id \in 0..(Len(fs) - 1) |-> FALSE]]).groups

(***************************************************************************)
(* merge_duplicate_groups.                                                 *)
(***************************************************************************)
RECURSIVE SortedIds_descending(_)
\* a group's file_ids, highest first
SortedIds_descending(S) ==
    IF S = {} THEN <<>>
    ELSE LET m == CHOOSE x \in S : \A y \in S : x >= y
         IN <<m>> \o SortedIds_descending(S \ {m})

RECURSIVE SortedIds(_)
\* std::sort of a group's file_ids
SortedIds(S) ==
    IF S = {} THEN <<>>
    ELSE LET m == CHOOSE x \in S : \A y \in S : x <= y
         IN <<m>> \o SortedIds(S \ {m})

RECURSIVE SumFrac(_, _)
SumFrac(f, S) ==
    IF S = {} THEN Zero
    ELSE LET x == CHOOSE y \in S : TRUE IN FracAdd(f[x], SumFrac(f, S \ {x}))

\* total_similarity / comparison_count over the pairs i < j of the sorted ids
AverageSimilarity(fs, cmp, file_ids) ==
    LET pairs == {p \in (1..Len(file_ids)) \X (1..Len(file_ids)) : p[1] < p[2]}
        sim == [p \in pairs |->
                   compare(cmp, fs[file_ids[p[1]] + 1].fingerprint,
                           fs[file_ids[p[2]] + 1].fingerprint).similarity_score]
        total_similarity == SumFrac(sim, pairs)
        comparison_count == Cardinality(pairs)
    IN IF comparison_count > 0
       THEN Norm(<<total_similarity[1], total_similarity[2] * comparison_count>>)
       ELSE Zero

DuplicateGroup(fs, cmp, group_set) ==
    LET file_ids == SortedIds(group_set)
    IN [file_ids |-> file_ids, avg_similarity |-> AverageSimilarity(fs, cmp, file_ids)]

\* final_groups before the sort, in the order of group_sets
UnsortedGroups(fs, cmp, group_sets) ==
    LET kept == SelectSeq(group_sets, LAMBDA g : Cardinality(g) > 1)
    IN [i \in 1..Len(kept) |-> DuplicateGroup(fs, cmp, kept[i])]

\* the order the final sort must produce: avg_similarity highest first
SortedBySimilarity(groups) ==
    \A i \in 1..(Len(groups) - 1) :
        FracLe(groups[i + 1].avg_similarity, groups[i].avg_similarity)

\* What merge_duplicate_groups may return: every arrangement of the groups
\* that std::sort by avg_similarity can leave.
merge_duplicate_groups(fs, cmp, group_sets) ==
    LET unsorted == UnsortedGroups(fs, cmp, group_sets)
        arranged == {[i \in 1..Len(unsorted) |-> unsorted[p[i]]] :
                        p \in Perms(1..Len(unsorted))}
    IN {groups \in arranged : SortedBySimilarity(groups)}

find_all_duplicates(fs, index, threshold, cmp) ==
    merge_duplicate_groups(fs, cmp, SequentialRawGroups(fs, index, threshold, cmp))

(***************************************************************************)
(* FingerprintIndex: the remaining public operations, as actions.          *)
(***************************************************************************)
\* The queries leave the index as it is; what they return is given by the
\* operators find_candidates_by_id, find_candidates, get_file and get_file_count.
FindCandidatesById ==
    /\ \E file_id \in 0..MaxFiles :
          /\ find_candidates_by_id(files, hash_index, hash_threshold, file_id) # {}
          /\ call' = [op |-> "find_candidates", outcome |-> "ok"]
    /\ UNCHANGED <<mediaVars, parVars, lockVars, files, hash_index, hash_threshold, comparator, accepted>>

FindCandidatesByFingerprint ==
    /\ \E data \in QueryFingerprints :
          /\ find_candidates(hash_index, hash_threshold, data) # {}
          /\ call' = [op |-> "find_candidates", outcome |-> "ok"]
    /\ UNCHANGED <<mediaVars, parVars, lockVars, files, hash_index, hash_threshold, comparator, accepted>>

FindAllDuplicates ==
    /\ \E result \in find_all_duplicates(files, hash_index, hash_threshold, comparator) :
          call' = [op |-> "find_all_duplicates", outcome |-> "ok", result |-> result]
    /\ UNCHANGED <<mediaVars, parVars, lockVars, files, hash_index, hash_threshold, comparator, accepted>>

\* get_file: a pointer to the entry (<<entry>>) or nullptr (<<>>)
get_file(fs, file_id) == IF file_id >= Len(fs) THEN <<>> ELSE <<fs[file_id + 1]>>

get_file_count(fs) == Len(fs)

GetFile ==
    /\ \E file_id \in 0..MaxFiles :
          /\ Len(get_file(files, file_id)) <= 1
          /\ call' = [op |-> "get_file", outcome |-> "ok"]
    /\ UNCHANGED <<mediaVars, parVars, lockVars, files, hash_index, hash_threshold, comparator, accepted>>

GetFileCount ==
    /\ get_file_count(files) >= 0
    /\ call' = [op |-> "get_file_count", outcome |-> "ok"]
    /\ UNCHANGED <<mediaVars, parVars, lockVars, files, hash_index, hash_threshold, comparator, accepted>>

SetHashThreshold ==
    /\ \E threshold \in HashThresholdArgs :
          /\ hash_threshold' = threshold
          /\ call' = [op |-> "set_hash_threshold", outcome |-> "ok"]
    /\ UNCHANGED <<mediaVars, parVars, lockVars, files, hash_index, comparator, accepted>>

SetComparator ==
    /\ \E c \in ComparatorArgs :
          /\ comparator' = c
          /\ call' = [op |-> "set_comparator", outcome |-> "ok"]
    /\ UNCHANGED <<mediaVars, parVars, lockVars, files, hash_index, hash_threshold, accepted>>

SetSimilarityThreshold ==
    /\ \E threshold \in SimilarityThresholdArgs :
          /\ comparator' = cmp_set_similarity_threshold(comparator, threshold)
          /\ call' = [op |-> "set_similarity_threshold", outcome |-> "ok"]
    /\ UNCHANGED <<mediaVars, parVars, lockVars, files, hash_index, hash_threshold, accepted>>

SetMaxAlignmentOffset ==
    /\ \E max_offset \in MaxAlignmentOffsetArgs :
          /\ comparator' = cmp_set_max_alignment_offset(comparator, max_offset)
          /\ call' = [op |-> "set_max_alignment_offset", outcome |-> "ok"]
    /\ UNCHANGED <<mediaVars, parVars, lockVars, files, hash_index, hash_threshold, accepted>>

SetBitErrorThreshold ==
    /\ \E threshold \in BitErrorThresholdArgs :
          /\ comparator' = cmp_set_bit_error_threshold(comparator, threshold)
          /\ call' = [op |-> "set_bit_error_threshold", outcome |-> "ok"]
    /\ UNCHANGED <<mediaVars, parVars, lockVars, files, hash_index, hash_threshold, accepted>>

\* hash_index_.clear(); files_.clear();
ClearedFiles(fs) == <<>>

ClearedIndex(index) == [h \in {} |-> <<>>]

Clear ==
    /\ files' = ClearedFiles(files)
    /\ hash_index' = ClearedIndex(hash_index)
    /\ accepted' = <<>>
    /\ call' = [op |-> "clear", outcome |-> "ok"]
    /\ UNCHANGED <<mediaVars, parVars, lockVars, hash_threshold, comparator>>

(***************************************************************************)
(* Doubles whose rounding decides a size.  A positive double is written as  *)
(* its significand, the bits most significant first, and the exponent e of  *)
(* its last bit: the value is the number the bits spell times 2^e.  Zero    *)
(* has no bits.  Long numbers are taken 8 or 12 bits at a time.             *)
(***************************************************************************)
\* the bits of the significand of a double
MANTISSA_BITS == 53

\* the width bits of a natural number below 2^width
BitsOf(k, width) == Stored([i \in 1..width |-> (k \div 2 ^ (width - i)) % 2])

\* count bits 0
Zeros(count) == Stored([i \in 1..count |-> 0])

\* the number the bits spell
RECURSIVE BitsToInt(_)
BitsToInt(bits) ==
    IF bits = <<>> THEN 0
    ELSE IF Len(bits) = 1 THEN bits[1]
    ELSE BitsToInt(SubSeq(bits, 1, Len(bits) \div 2))
             * 2 ^ (Len(bits) - (Len(bits) \div 2))
         + BitsToInt(SubSeq(bits, (Len(bits) \div 2) + 1, Len(bits)))

\* the first n digits to base 256 after the point of rem / d, for rem < d
RECURSIVE DivDigits(_, _, _)
DivDigits(rem, d, n) ==
    IF n = 0 THEN <<>>
    ELSE <<(256 * rem) \div d>> \o DivDigits((256 * rem) % d, d, n - 1)

\* what the long division leaves after those n digits
RECURSIVE DivRem(_, _, _)
DivRem(rem, d, n) == IF n = 0 THEN rem ELSE DivRem((256 * rem) % d, d, n - 1)

\* the bits of digits to base 2^width
DigitBits(digits, width) ==
    Stored([i \in 1..(width * Len(digits)) |->
               (digits[(i - 1) \div width + 1] \div 2 ^ (width - 1 - ((i - 1) % width))) % 2])

\* the digits to base 2^width of bits, zeros put before them to fill count digits
Padded(bits, width, count) ==
    Zeros(width * count - Len(bits)) \o bits

Digits(bits, width, count) ==
    Stored([j \in 1..count |->
               BitsToInt(SubSeq(Padded(bits, width, count),
                                width * (j - 1) + 1, width * j))])

\* the bits without their leading zeros
Stripped(bits) ==
    IF \A i \in 1..Len(bits) : bits[i] = 0 THEN <<>>
    ELSE SubSeq(bits,
                CHOOSE i \in 1..Len(bits) :
                    bits[i] = 1 /\ \A j \in 1..(i - 1) : bits[j] = 0,
                Len(bits))

\* the place of the last 0 among the bits
LastZero(bits) ==
    CHOOSE i \in 1..Len(bits) :
        bits[i] = 0 /\ \A j \in (i + 1)..Len(bits) : bits[j] = 1

\* the bits plus one in the last place
Incremented(bits) ==
    IF \A i \in 1..Len(bits) : bits[i] = 1 THEN <<1>> \o Zeros(Len(bits))
    ELSE Stored([i \in 1..Len(bits) |->
                    IF i < LastZero(bits) THEN bits[i]
                    ELSE IF i = LastZero(bits) THEN 1 ELSE 0])

\* a significand that grew by one bit when it was rounded up ends in 0
Renormalised(bits, e) ==
    IF Len(bits) > MANTISSA_BITS
    THEN [bits |-> SubSeq(bits, 1, MANTISSA_BITS), e |-> e + 1]
    ELSE [bits |-> bits, e |-> e]

\* round to nearest, ties to even: up when the first bit dropped is 1 and
\* either something follows it or the last bit kept is 1
RoundsUp(bits, sticky) ==
    /\ bits[MANTISSA_BITS + 1] = 1
    /\ \/ sticky
       \/ \E i \in (MANTISSA_BITS + 2)..Len(bits) : bits[i] = 1
       \/ bits[MANTISSA_BITS] = 1

\* The double nearest to the number the bits spell times 2^e; sticky says
\* that the exact number is above it by less than 2^e
Rounded(bits, e, sticky) ==
    IF Len(bits) <= MANTISSA_BITS THEN [bits |-> bits, e |-> e]
    ELSE IF RoundsUp(bits, sticky)
    THEN Renormalised(Incremented(SubSeq(bits, 1, MANTISSA_BITS)),
                      e + Len(bits) - MANTISSA_BITS)
    ELSE [bits |-> SubSeq(bits, 1, MANTISSA_BITS), e |-> e + Len(bits) - MANTISSA_BITS]

\* static_cast<double>(a) / b of two positive ints: the quotient to 72 bits
\* after the point, which is more than a double keeps, then rounded
DoubleDiv(a, b) ==
    Rounded(Stripped(BitsOf(a \div b, 31) \o DigitBits(DivDigits(a % b, b, 9), 8)),
            -72, DivRem(a % b, b, 9) # 0)

\* the digits to base 4096 of n times the number the digits spell, carry
\* added, after the bits of what is carried out of them
RECURSIVE Times(_, _, _)
Times(digits, n, carry) ==
    IF digits = <<>> THEN <<carry>>
    ELSE Append(Times(SubSeq(digits, 1, Len(digits) - 1), n,
                      (n * digits[Len(digits)] + carry) \div 4096),
                (n * digits[Len(digits)] + carry) % 4096)

\* the bits of a carry and the digits after it
ProductBits(product) ==
    BitsOf(product[1], 31) \o DigitBits(Tail(product), 12)

\* n * d of a size_t n below 2^19 and a double d
DoubleTimes(n, d) ==
    Rounded(Stripped(ProductBits(Times(Digits(d.bits, 12, 5), n, 0))), d.e, FALSE)

\* static_cast<size_t>(d): the bits before the binary point
Truncated(d) ==
    IF d.e >= 0 THEN BitsToInt(d.bits) * 2 ^ d.e
    ELSE BitsToInt(SubSeq(d.bits, 1, Len(d.bits) + d.e))

\* static_cast<size_t>(size * ratio) with ratio = double(output_rate) / input_rate
OutputSize(size, input_rate, output_rate) ==
    Truncated(DoubleTimes(size, DoubleDiv(output_rate, input_rate)))

(***************************************************************************)
(* AudioMemoryPool.  An address is a positive number and nullptr is 0.      *)
(* heap is the set of addresses mi_malloc returned and mi_free has not      *)
(* taken back.  A size_t that went below zero is kept as the negative       *)
(* number it wrapped from (it stands for 2^64 plus that number).            *)
(***************************************************************************)
\* enum class PoolSize
SMALL == 1048576

MEDIUM == 4194304

LARGE == 16777216

\* static constexpr size_t INITIAL_POOL_BLOCKS = 8
INITIAL_POOL_BLOCKS == 8

\* static constexpr size_t MAX_POOL_BLOCKS = 64
MAX_POOL_BLOCKS == 64

\* a < b between two size_t values
SizeLess(a, b) ==
    IF (a < 0) = (b < 0) THEN a < b ELSE b < 0

\* std::max of two size_t values
SizeMax(a, b) == IF SizeLess(a, b) THEN b ELSE a

\* The addresses that are not live, lowest first: mi_malloc returns the
\* first of them
RECURSIVE FreeAddresses(_, _, _)
FreeAddresses(live, from, n) ==
    IF n = 0 THEN <<>>
    ELSE IF from \in live THEN FreeAddresses(live, from + 1, n)
    ELSE <<from>> \o FreeAddresses(live, from + 1, n - 1)

\* mi_malloc: nullptr when out of memory
mi_malloc(live, oom) == IF oom THEN 0 ELSE FreeAddresses(live, 1, 1)[1]

\* PoolBlock(void* p, size_t s) : ptr(p), size(s), in_use(false)
PoolBlock(p, s) == [ptr |-> p, size |-> s, in_use |-> FALSE]

\* AudioMemoryPool::expandPool: the blocks after it; the loop stops at the
\* first mi_malloc that fails
expandPool(blocks, pool_size, live, oom) ==
    IF oom THEN blocks
    ELSE blocks \o [i \in 1..Min(INITIAL_POOL_BLOCKS, MAX_POOL_BLOCKS - Len(blocks)) |->
                       PoolBlock(FreeAddresses(live, 1, Min(INITIAL_POOL_BLOCKS,
                                                   MAX_POOL_BLOCKS - Len(blocks)))[i],
                                 pool_size)]

\* the addresses of blocks
BlockPtrs(blocks) == {blocks[i].ptr : i \in DOMAIN blocks}

\* the first block of the pool that is not in use, 0 if there is none
FirstAvailable(blocks) ==
    IF \E i \in DOMAIN blocks : ~blocks[i].in_use
    THEN CHOOSE i \in DOMAIN blocks :
             ~blocks[i].in_use /\ \A j \in 1..(i - 1) : blocks[j].in_use
    ELSE 0

\* block k of the pool taken
TakeBlock(blocks, k) == [blocks EXCEPT ![k].in_use = TRUE]

\* AudioMemoryPool::allocateFromPool: [ptr, blocks], ptr 0 when the pool is
\* exhausted
allocateFromPool(blocks, pool_size, live, oom) ==
    IF FirstAvailable(blocks) # 0
    THEN [ptr |-> blocks[FirstAvailable(blocks)].ptr,
          blocks |-> TakeBlock(blocks, FirstAvailable(blocks))]
    ELSE IF Len(blocks) < MAX_POOL_BLOCKS /\
            Len(expandPool(blocks, pool_size, live, oom)) > Len(blocks)
         THEN [ptr |-> expandPool(blocks, pool_size, live, oom)[Len(blocks) + 1].ptr,
               blocks |-> TakeBlock(expandPool(blocks, pool_size, live, oom), Len(blocks) + 1)]
         ELSE [ptr |-> 0, blocks |-> expandPool(blocks, pool_size, live, oom)]

\* AudioMemoryPool::categorizeSize
categorizeSize(size) ==
    IF size <= SMALL THEN "SMALL" ELSE IF size <= MEDIUM THEN "MEDIUM" ELSE "LARGE"

\* the size of the blocks of a category
PoolSizeOf(category) ==
    IF category = "SMALL" THEN SMALL ELSE IF category = "MEDIUM" THEN MEDIUM ELSE LARGE

\* the vector of a category
BlocksOf(p, category) ==
    IF category = "SMALL" THEN p.small_blocks_
    ELSE IF category = "MEDIUM" THEN p.medium_blocks_ ELSE p.large_blocks_

\* the pool with the vector of a category replaced
WithBlocks(p, category, blocks) ==
    IF category = "SMALL" THEN [p EXCEPT !.small_blocks_ = blocks]
    ELSE IF category = "MEDIUM" THEN [p EXCEPT !.medium_blocks_ = blocks]
    ELSE [p EXCEPT !.large_blocks_ = blocks]

\* total_allocated_ - total_deallocated_
CurrentUsage(p) == p.total_allocated_ - p.total_deallocated_

\* total_allocated_ += size; peak_usage_ = std::max(peak_usage_, usage)
Counted(p, ptr, size) ==
    IF ptr = 0 THEN p
    ELSE [p EXCEPT !.total_allocated_ = @ + size,
                   !.peak_usage_ = SizeMax(@, p.total_allocated_ + size - p.total_deallocated_)]

\* the live addresses after the pool's vectors grew and ptr was handed out
LiveAfter(live, blocks, ptr) == (live \cup BlockPtrs(blocks) \cup {ptr}) \ {0}

\* allocate with the pool in use, once the category's vector was served
PoolAllocated(p, live, category, served, size, oom) ==
    IF served.ptr # 0
    THEN [ptr |-> served.ptr,
          pool |-> Counted(WithBlocks(p, category, served.blocks), served.ptr, size),
          heap |-> LiveAfter(live, served.blocks, 0)]
    ELSE [ptr |-> mi_malloc(LiveAfter(live, served.blocks, 0), oom),
          pool |-> Counted(WithBlocks(p, category, served.blocks),
                           mi_malloc(LiveAfter(live, served.blocks, 0), oom), size),
          heap |-> LiveAfter(live, served.blocks,
                             mi_malloc(LiveAfter(live, served.blocks, 0), oom))]

\* AudioMemoryPool::allocate: the pointer returned, the pool and the heap
\* after it.  oom is whether mi_malloc fails during the call
allocate(p, live, size, oom) ==
    IF ~p.enabled_ \/ size = 0
    THEN [ptr |-> mi_malloc(live, oom),
          pool |-> Counted(p, mi_malloc(live, oom), size),
          heap |-> LiveAfter(live, <<>>, mi_malloc(live, oom))]
    ELSE PoolAllocated(p, live, categorizeSize(size),
                       allocateFromPool(BlocksOf(p, categorizeSize(size)),
                                        PoolSizeOf(categorizeSize(size)), live, oom),
                       size, oom)

\* AudioMemoryPool::deallocateFromPool: the block of that address, 0 if none
BlockOf(blocks, ptr) ==
    IF \E i \in DOMAIN blocks : blocks[i].ptr = ptr
    THEN CHOOSE i \in DOMAIN blocks :
             blocks[i].ptr = ptr /\ \A j \in 1..(i - 1) : blocks[j].ptr # ptr
    ELSE 0

\* block k of the pool given back
ReturnBlock(blocks, k) == [blocks EXCEPT ![k].in_use = FALSE]

\* AudioMemoryPool::deallocate of a pointer that is not nullptr: the pool,
\* the heap, and the addresses passed to mi_free
deallocate(p, live, ptr, size) ==
    IF ~p.enabled_ \/ BlockOf(BlocksOf(p, categorizeSize(size)), ptr) = 0
    THEN [pool |-> [p EXCEPT !.total_deallocated_ = @ + size],
          heap |-> live \ {ptr},
          freed |-> <<ptr>>]
    ELSE [pool |-> [WithBlocks(p, categorizeSize(size),
                               ReturnBlock(BlocksOf(p, categorizeSize(size)),
                                           BlockOf(BlocksOf(p, categorizeSize(size)), ptr)))
                       EXCEPT !.total_deallocated_ = @ + size],
          heap |-> live,
          freed |-> <<>>]

\* the addresses of the blocks of the three vectors, in the order clear
\* passes them to mi_free
AllBlockPtrs(p) ==
    [i \in 1..(Len(p.small_blocks_) + Len(p.medium_blocks_) + Len(p.large_blocks_)) |->
        (p.small_blocks_ \o p.medium_blocks_ \o p.large_blocks_)[i].ptr]

\* AudioMemoryPool::clear
clear(p, live) ==
    [pool |-> [p EXCEPT !.small_blocks_ = <<>>, !.medium_blocks_ = <<>>,
                        !.large_blocks_ = <<>>, !.total_allocated_ = 0,
                        !.total_deallocated_ = 0, !.peak_usage_ = 0],
     heap |-> live \ {AllBlockPtrs(p)[i] : i \in DOMAIN AllBlockPtrs(p)},
     freed |-> AllBlockPtrs(p)]

\* AudioMemoryPool::AudioMemoryPool, with the memory for the initial blocks
NewPool ==
    [enabled_ |-> TRUE,
     small_blocks_ |-> expandPool(<<>>, SMALL, {}, FALSE),
     medium_blocks_ |-> expandPool(<<>>, MEDIUM, 1..INITIAL_POOL_BLOCKS, FALSE),
     large_blocks_ |-> expandPool(<<>>, LARGE, 1..(2 * INITIAL_POOL_BLOCKS), FALSE),
     total_allocated_ |-> 0,
     total_deallocated_ |-> 0,
     peak_usage_ |-> 0]

\* the heap the constructor leaves
NewHeap == 1..(3 * INITIAL_POOL_BLOCKS)

(***************************************************************************)
(* StreamingAudioLoader.  A file is what libsndfile reports of it (frames,  *)
(* channels, samplerate), whether sf_open succeeds, and the frames that can *)
(* be read before the data ends.  Sample values are left out: a chunk is    *)
(* the counts and buffer positions of its read.                             *)
(***************************************************************************)
\* static const int CHROMAPRINT_SAMPLE_RATE = 11025, of ChromaprintWrapper and
\* of StreamingAudioLoader
CHROMAPRINT_SAMPLE_RATE == 11025

\* static constexpr size_t DEFAULT_CHUNK_SIZE = 1024 * 1024
DEFAULT_CHUNK_SIZE == 1048576

\* static constexpr size_t MAX_CHUNK_SIZE = 16 * 1024 * 1024
MAX_CHUNK_SIZE == 16777216

\* the least chunk size and the alignment of validateChunkSize
CHUNK_ALIGNMENT == 4096

\* sizeof(float)
SIZEOF_FLOAT == 4

\* StreamingAudioLoader::validateChunkSize: chunk_size_ after it
validateChunkSize(chunk_size) ==
    (((IF chunk_size < CHUNK_ALIGNMENT THEN CHUNK_ALIGNMENT
       ELSE IF chunk_size > MAX_CHUNK_SIZE THEN MAX_CHUNK_SIZE
       ELSE chunk_size) + (CHUNK_ALIGNMENT - 1)) \div CHUNK_ALIGNMENT) * CHUNK_ALIGNMENT

\* no streaming call made yet
IdleStream == [pc |-> "idle"]

\* StreamingAudioLoader::StreamingAudioLoader
NewLoader ==
    [chunk_size_ |-> validateChunkSize(DEFAULT_CHUNK_SIZE),
     last_stats_ |-> [total_bytes_processed |-> 0, peak_memory_usage |-> 0],
     started |-> 0,
     stream |-> IdleStream]

\* processFileStream at its first line: nothing opened, created or read
NewStream(entry, file, max_duration_seconds, usage) ==
    [pc |-> "sf_open", entry |-> entry, file |-> file,
     max_duration_seconds |-> max_duration_seconds,
     max_frames_to_process |-> 0, opened |-> FALSE, closes |-> 0,
     created |-> FALSE, frees |-> 0, buffer |-> 0, chunk_frames |-> 0,
     frames_processed |-> 0, position |-> 0, chunks |-> <<>>, fed |-> 0,
     usage_before |-> usage, outcome |-> "", duration |-> Zero]

\* max_frames_to_process
MaxFramesToProcess(file, max_duration_seconds) ==
    IF max_duration_seconds > 0
    THEN Min(file.frames, max_duration_seconds * file.samplerate)
    ELSE file.frames

\* the exception leaves the call
Thrown(s, message) == [s EXCEPT !.pc = "thrown", !.outcome = message]

\* sf_open and the processing parameters
Opened(s) ==
    IF ~s.file.opens THEN Thrown(s, "Failed to open audio file")
    ELSE [s EXCEPT !.pc = "chromaprint_new", !.opened = TRUE,
                   !.max_frames_to_process =
                       MaxFramesToProcess(s.file, s.max_duration_seconds)]

\* chromaprint_new and the exit when it returns no context
Created(s, ok) ==
    IF ok THEN [s EXCEPT !.pc = "chromaprint_start", !.created = TRUE]
    ELSE Thrown([s EXCEPT !.closes = @ + 1], "Failed to create Chromaprint context")

\* chromaprint_start and the exit when it fails
Started(s, ok) ==
    IF ok THEN [s EXCEPT !.pc = "allocate"]
    ELSE Thrown([s EXCEPT !.frees = @ + 1, !.closes = @ + 1],
                "Failed to start Chromaprint")

\* a handler that frees the context and leaves the file open
Caught_without_close(s, message) ==
    Thrown([s EXCEPT !.buffer = 0, !.frees = @ + 1], message)

\* catch (...): chromaprint_free(ctx); sf_close(file); throw.  The buffer was
\* given back by the unwinding before it
Caught(s, message) ==
    Thrown([s EXCEPT !.buffer = 0, !.frees = @ + 1, !.closes = @ + 1], message)

\* where the loop goes next: while (frames_processed < max_frames_to_process)
LoopPc(s) ==
    IF s.frames_processed < s.max_frames_to_process THEN "read" ELSE "finish"

\* the buffer allocated and the loop entered
Buffered(s, ptr, chunk_size) ==
    [s EXCEPT !.buffer = ptr,
              !.chunk_frames = chunk_size \div (s.file.channels * SIZEOF_FLOAT),
              !.pc = LoopPc(s)]

\* frames_to_read of the iteration
FramesToRead(s) == Min(s.chunk_frames, s.max_frames_to_process - s.frames_processed)

\* What sf_read_float(file, buffer, items) returns: the number of items read,
\* which ends with the data of the file
sf_read_float(s, items) ==
    Min(items, s.file.readable * s.file.channels - s.position)

\* the samples of mono_samples after the resampling of the chunk:
\* static_cast<size_t>(mono_samples.size() * ratio)
ResampledSize(mono_size, original_sample_rate) ==
    IF original_sample_rate # CHROMAPRINT_SAMPLE_RATE
    THEN OutputSize(mono_size, original_sample_rate, CHROMAPRINT_SAMPLE_RATE)
    ELSE mono_size

\* One chunk: frames_read is what sf_read_float returned.  The downmix loop
\* runs for i < frames_read and reads buffer[i * channels + ch]; mono takes
\* buffer .. buffer + frames_read
Chunk(s, frames_read) ==
    [frames_to_read |-> FramesToRead(s),
     frames_read |-> frames_read,
     filled |-> frames_read,
     mono_samples |-> frames_read,
     highest_read |-> IF s.file.channels > 1
                      THEN (frames_read - 1) * s.file.channels + s.file.channels - 1
                      ELSE frames_read - 1,
     fed |-> ResampledSize(frames_read, s.file.samplerate)]

\* the iteration up to chromaprint_feed
ChunkRead(s, frames_read) ==
    [s EXCEPT !.chunks = Append(@, Chunk(s, frames_read)),
              !.position = @ + frames_read]

\* the rest of the iteration after chromaprint_feed succeeded
ChunkFed(s, frames_read) ==
    [s EXCEPT !.fed = @ + ResampledSize(frames_read, s.file.samplerate),
              !.frames_processed = @ + frames_read \div s.file.channels,
              !.pc = IF s.frames_processed + frames_read \div s.file.channels
                          < s.max_frames_to_process
                     THEN "read" ELSE "finish"]

\* the floats the allocation of the buffer has room for: a block of the pool
\* when the address is one, the bytes asked for otherwise
BufferFloats(p, ptr, chunk_size) ==
    IF BlockOf(BlocksOf(p, categorizeSize(chunk_size)), ptr) # 0
    THEN PoolSizeOf(categorizeSize(chunk_size)) \div SIZEOF_FLOAT
    ELSE chunk_size \div SIZEOF_FLOAT

\* last_stats_ after an iteration
StatsAfterChunk(stats, s, frames_read) ==
    [stats EXCEPT !.total_bytes_processed =
                      @ + frames_read * s.file.channels * SIZEOF_FLOAT]

\* temp_fingerprint.duration = frames_processed / original_sample_rate
StreamDuration(s) == Norm(<<s.frames_processed, s.file.samplerate>>)

\* chromaprint_free(ctx); sf_close(file); return compressed_fp; and the
\* buffer given back on leaving the block
Returned(s) ==
    [s EXCEPT !.pc = "returned", !.outcome = "ok", !.buffer = 0,
              !.frees = @ + 1, !.closes = @ + 1, !.duration = StreamDuration(s)]

\* the call after chromaprint_get_raw_fingerprint and compress
Compressed(s, got, fp_size, lz4_ok) ==
    IF ~got THEN Caught(s, "Failed to get fingerprint")
    ELSE IF fp_size = 0 THEN Caught(s, "Cannot compress empty fingerprint")
    ELSE IF ~lz4_ok THEN Caught(s, "LZ4 compression failed")
    ELSE Returned(s)

(***************************************************************************)
(* The index under a single caller: every public call is one step.         *)
(***************************************************************************)
\* FingerprintIndex::FingerprintIndex()
Init ==
    /\ files = <<>>
    /\ hash_index = [h \in {} |-> <<>>]
    /\ hash_threshold = DEFAULT_HASH_THRESHOLD
    /\ comparator = NewComparator
    /\ call = [op |-> "new", outcome |-> "ok"]
    /\ accepted = <<>>
    /\ workers = <<>>
    /\ processed = <<>>
    /\ next_file_id = 0
    /\ raw_groups = <<>>
    /\ threads = <<>>
    /\ files_mutex = 0
    /\ index_mutex = [writer |-> 0, readers |-> <<>>]
    /\ loader = NewLoader
    /\ pool = NewPool
    /\ heap = [live |-> NewHeap, corrupted |-> FALSE]
    /\ held = [by |-> {}, allocations |-> 0]

Next ==
    \/ AddFile
    \/ AddFilesBatch
    \/ FindCandidatesById
    \/ FindCandidatesByFingerprint
    \/ FindAllDuplicates
    \/ GetFile
    \/ GetFileCount
    \/ SetHashThreshold
    \/ SetComparator
    \/ SetSimilarityThreshold
    \/ SetMaxAlignmentOffset
    \/ SetBitErrorThreshold
    \/ Clear

vars == <<indexVars, parVars, lockVars, mediaVars>>

Spec == Init /\ [][Next]_vars

(***************************************************************************)
(* find_all_duplicates_parallel: the OpenMP workers, one step per access    *)
(* to what they share (the loop counter, processed under processed_mutex,   *)
(* raw_groups under groups_mutex).  What a worker computes between two      *)
(* accesses belongs to the step of the access before it.                    *)
(***************************************************************************)
\* omp_set_num_threads(num_threads) is called with at most MaxThreads.
MaxThreads == 2

StartedWorker ==
    [pc |-> "for", file_id |-> 0, candidates |-> <<>>, duplicate_group |-> {},
     thread_groups |-> <<>>]

\* The call up to the parallel region: an empty store returns at once
StartParallel ==
    /\ workers = <<>>
    /\ \E num_threads \in 1..MaxThreads :
          IF files = <<>>
          THEN /\ call' = [op |-> "find_all_duplicates_parallel", outcome |-> "ok",
                           result |-> <<>>]
               /\ UNCHANGED parVars
          ELSE /\ workers' = [t \in 1..num_threads |-> StartedWorker]
               /\ processed' = [id \in 0..(Len(files) - 1) |-> FALSE]
               /\ next_file_id' = 0
               /\ raw_groups' = <<>>
               /\ call' = [op |-> "find_all_duplicates_parallel", outcome |-> "running"]
    /\ UNCHANGED <<mediaVars, files, hash_index, hash_threshold, comparator, accepted, lockVars>>

\* schedule(dynamic): the thread takes the next iteration, or leaves the loop
TakeIteration(t) ==
    /\ workers[t].pc = "for"
    /\ IF next_file_id < Len(files)
       THEN /\ workers' = [workers EXCEPT ![t].pc = "check", ![t].file_id = next_file_id]
            /\ next_file_id' = next_file_id + 1
       ELSE /\ workers' = [workers EXCEPT ![t].pc = "barrier"]
            /\ UNCHANGED next_file_id
    /\ UNCHANGED <<mediaVars, indexVars, processed, raw_groups, lockVars>>

\* The first locked section: skip a processed seed; otherwise find_candidates
\* of the seed's fingerprint and start its duplicate_group
CheckSeed(t) ==
    /\ workers[t].pc = "check"
    /\ IF processed[workers[t].file_id]
       THEN workers' = [workers EXCEPT ![t].pc = "for"]
       ELSE \E candidates \in find_candidates(hash_index, hash_threshold,
                                              files[workers[t].file_id + 1].fingerprint) :
               workers' = [workers EXCEPT
                              ![t].pc = IF candidates = <<>> THEN "mark" ELSE "compare",
                              ![t].candidates = candidates,
                              ![t].duplicate_group = {workers[t].file_id}]
    /\ UNCHANGED <<mediaVars, indexVars, processed, next_file_id, raw_groups, lockVars>>

\* `candidate_id != file_id && candidate_id < files_.size()`, then the locked
\* read of processed[candidate_id]
WorkerCandidateEligible(fs, file_id, candidate_id, bitmap) ==
    /\ candidate_id # file_id
    /\ candidate_id < Len(fs)
    /\ ~bitmap[candidate_id]

\* One turn of the candidate loop: the locked read of processed[candidate_id]
\* and, when it is not set, the comparison with the seed
CompareCandidate(t) ==
    /\ workers[t].pc = "compare"
    /\ workers' = [workers EXCEPT
          ![t].pc = IF Len(workers[t].candidates) = 1 THEN "mark" ELSE "compare",
          ![t].candidates = Tail(workers[t].candidates),
          ![t].duplicate_group =
              IF /\ WorkerCandidateEligible(files, workers[t].file_id,
                                            Head(workers[t].candidates), processed)
                 /\ IsDuplicateOfSeed(comparator, files, workers[t].file_id,
                                      Head(workers[t].candidates))
              THEN workers[t].duplicate_group \cup {Head(workers[t].candidates)}
              ELSE workers[t].duplicate_group]
    /\ UNCHANGED <<mediaVars, indexVars, processed, next_file_id, raw_groups, lockVars>>

\* The last locked section: keep a group of more than one member in
\* thread_groups and mark its members, otherwise mark the seed
MarkGroup(t) ==
    /\ workers[t].pc = "mark"
    /\ processed' = MarkProcessed(processed, workers[t].file_id, workers[t].duplicate_group)
    /\ workers' = [workers EXCEPT
          ![t].pc = "for",
          ![t].thread_groups =
              IF Cardinality(workers[t].duplicate_group) > 1
              THEN Append(workers[t].thread_groups, workers[t].duplicate_group)
              ELSE workers[t].thread_groups]
    /\ UNCHANGED <<mediaVars, indexVars, next_file_id, raw_groups, lockVars>>

\* After the loop's barrier: thread_groups goes to the end of raw_groups
MergeThreadGroups(t) ==
    /\ workers[t].pc = "barrier"
    /\ \A u \in DOMAIN workers : workers[u].pc \in {"barrier", "done"}
    /\ raw_groups' = raw_groups \o workers[t].thread_groups
    /\ workers' = [workers EXCEPT ![t].pc = "done"]
    /\ UNCHANGED <<mediaVars, indexVars, processed, next_file_id, lockVars>>

\* return merge_duplicate_groups(raw_groups)
ReturnParallel ==
    /\ workers # <<>>
    /\ \A t \in DOMAIN workers : workers[t].pc = "done"
    /\ \E result \in merge_duplicate_groups(files, comparator, raw_groups) :
          call' = [op |-> "find_all_duplicates_parallel", outcome |-> "ok",
                   result |-> result]
    /\ workers' = <<>>
    /\ processed' = <<>>
    /\ next_file_id' = 0
    /\ raw_groups' = <<>>
    /\ UNCHANGED <<mediaVars, files, hash_index, hash_threshold, comparator, accepted, lockVars>>

\* The index is filled and configured while no discovery runs.
FillIndex == workers = <<>> /\ AddFile

ConfigureComparator == workers = <<>> /\ SetComparator

ConfigureHashThreshold == workers = <<>> /\ SetHashThreshold

\* The sequential discovery, called while no parallel discovery runs
SequentialDiscovery == workers = <<>> /\ FindAllDuplicates

NextPar ==
    \/ FillIndex
    \/ ConfigureComparator
    \/ ConfigureHashThreshold
    \/ SequentialDiscovery
    \/ StartParallel
    \/ \E t \in DOMAIN workers : TakeIteration(t)
    \/ \E t \in DOMAIN workers : CheckSeed(t)
    \/ \E t \in DOMAIN workers : CompareCandidate(t)
    \/ \E t \in DOMAIN workers : MarkGroup(t)
    \/ \E t \in DOMAIN workers : MergeThreadGroups(t)
    \/ ReturnParallel

SpecPar == Init /\ [][NextPar]_vars

(***************************************************************************)
(* The index called from several threads: a call is a sequence of steps,   *)
(* one per lock operation and one per section that reads or writes files_  *)
(* or hash_index_.  A thread whose pc names a section is inside it.  What  *)
(* a read returns to its caller is not kept.                               *)
(***************************************************************************)
\* threads calling the index
NumCallers == 2

\* the store holds at most MaxLockFiles entries
MaxLockFiles == 2

LockInputs ==
    {[path |-> "a.wav", fp |-> Ptr(FpA)], [path |-> "empty.wav", fp |-> Ptr(<<>>)]}

LockBatches ==
    { << [path |-> "a.wav", fp |-> Ptr(FpA)], [path |-> "b.wav", fp |-> Ptr(FpB)] >>,
      << [path |-> "a.wav", fp |-> Ptr(FpA)], [path |-> "null.wav", fp |-> NullPtr] >> }

\* file_id 0 is out of range while the store is empty and in range afterwards
LockFileIds == {0}

IdleThread == [op |-> "none", pc |-> "idle", batch |-> <<>>, i |-> 0, file_id |-> 0]

AddOps == {"add_file", "add_files_batch"}

RECURSIVE PendingFrom(_, _)
\* entries the add calls under way may still store
PendingFrom(ths, t) ==
    IF t > Len(ths) THEN 0
    ELSE (IF ths[t].op \in AddOps THEN Len(ths[t].batch) - ths[t].i + 1 ELSE 0)
         + PendingFrom(ths, t + 1)

RoomFor(n) == Len(files) + PendingFrom(threads, 1) + n <= MaxLockFiles

\* A lock on index_mutex_ that add_file would take were it a reader
AddIndexLockMode_shared == "shared"

\* std::unique_lock<std::shared_mutex> index_lock(index_mutex_)
AddIndexLockMode == "unique"

NoReaders(m) == \A t \in DOMAIN m.readers : m.readers[t] = 0

\* std::shared_mutex: lock() waits for the readers and the writer to leave,
\* lock_shared() for the writer
CanLock(m, mode) ==
    IF mode = "unique" THEN m.writer = 0 /\ NoReaders(m) ELSE m.writer = 0

Locked(m, t, mode) ==
    IF mode = "unique" THEN [m EXCEPT !.writer = t]
    ELSE [m EXCEPT !.readers[t] = @ + 1]

\* the destructors of a call's locks
Unlocked(m, t) ==
    [writer |-> IF m.writer = t THEN 0 ELSE m.writer,
     readers |-> [m.readers EXCEPT ![t] = 0]]

\* The loop head of add_files_batch at element i: leave the loop, throw on an
\* invalid element, or go on to store it
ElementPc(batch, i) ==
    IF i > Len(batch) THEN "return"
    ELSE IF InvalidFingerprint(batch[i].fp) THEN "throw"
    ELSE "build_hash_index"

\* add_file: the check of line 17 comes before the locks
CallAddFile(t) ==
    /\ threads[t].pc = "idle"
    /\ \E in \in LockInputs :
          IF InvalidFingerprint(in.fp)
          THEN threads' = [threads EXCEPT ![t] =
                              [IdleThread EXCEPT !.op = "add_file", !.pc = "throw"]]
          ELSE /\ RoomFor(1)
               /\ threads' = [threads EXCEPT ![t] =
                                 [op |-> "add_file", pc |-> "lock_files",
                                  batch |-> <<in>>, i |-> 1, file_id |-> 0]]
    /\ UNCHANGED <<mediaVars, indexVars, parVars, files_mutex, index_mutex>>

CallAddFilesBatch(t) ==
    /\ threads[t].pc = "idle"
    /\ \E batch \in LockBatches :
          /\ RoomFor(Len(batch))
          /\ threads' = [threads EXCEPT ![t] =
                            [op |-> "add_files_batch", pc |-> "lock_files",
                             batch |-> batch, i |-> 1, file_id |-> 0]]
    /\ UNCHANGED <<mediaVars, indexVars, parVars, files_mutex, index_mutex>>

CallFindCandidatesById(t) ==
    /\ threads[t].pc = "idle"
    /\ \E file_id \in LockFileIds :
          threads' = [threads EXCEPT ![t] =
                         [IdleThread EXCEPT !.op = "find_candidates",
                                            !.pc = "lock_shared", !.file_id = file_id]]
    /\ UNCHANGED <<mediaVars, indexVars, parVars, files_mutex, index_mutex>>

CallFindCandidatesByFingerprint(t) ==
    /\ threads[t].pc = "idle"
    /\ threads' = [threads EXCEPT ![t] =
                      [IdleThread EXCEPT !.op = "find_candidates_fp", !.pc = "lock_shared"]]
    /\ UNCHANGED <<mediaVars, indexVars, parVars, files_mutex, index_mutex>>

CallGetFile(t) ==
    /\ threads[t].pc = "idle"
    /\ \E file_id \in LockFileIds :
          threads' = [threads EXCEPT ![t] =
                         [IdleThread EXCEPT !.op = "get_file", !.pc = "read_files",
                                            !.file_id = file_id]]
    /\ UNCHANGED <<mediaVars, indexVars, parVars, files_mutex, index_mutex>>

CallGetFileCount(t) ==
    /\ threads[t].pc = "idle"
    /\ threads' = [threads EXCEPT ![t] =
                      [IdleThread EXCEPT !.op = "get_file_count", !.pc = "read_files"]]
    /\ UNCHANGED <<mediaVars, indexVars, parVars, files_mutex, index_mutex>>

CallClear(t) ==
    /\ threads[t].pc = "idle"
    /\ threads' = [threads EXCEPT ![t] =
                      [IdleThread EXCEPT !.op = "clear", !.pc = "clear_index"]]
    /\ UNCHANGED <<mediaVars, indexVars, parVars, files_mutex, index_mutex>>

\* std::unique_lock<std::mutex> files_lock(files_mutex_)
LockFilesMutex(t) ==
    /\ threads[t].pc = "lock_files"
    /\ files_mutex = 0
    /\ files_mutex' = t
    /\ threads' = [threads EXCEPT ![t].pc =
                      IF threads[t].op \in AddOps THEN "lock_index" ELSE "read_files"]
    /\ UNCHANGED <<mediaVars, indexVars, parVars, index_mutex>>

\* add_file, add_files_batch: the lock on index_mutex_, then the loop head
\* with `file_id = files_.size()`
LockIndexMutex(t) ==
    /\ threads[t].pc = "lock_index"
    /\ CanLock(index_mutex, AddIndexLockMode)
    /\ index_mutex' = Locked(index_mutex, t, AddIndexLockMode)
    /\ threads' = [threads EXCEPT
                      ![t].pc = ElementPc(threads[t].batch, threads[t].i),
                      ![t].file_id = NextFileId(files)]
    /\ UNCHANGED <<mediaVars, indexVars, parVars, files_mutex>>

\* find_candidates: std::shared_lock<std::shared_mutex> index_lock(index_mutex_),
\* taken by the overload for a file_id and again by the one it calls
LockShared(t) ==
    /\ threads[t].pc \in {"lock_shared", "lock_shared_again"}
    /\ CanLock(index_mutex, "shared")
    /\ index_mutex' = Locked(index_mutex, t, "shared")
    /\ threads' = [threads EXCEPT ![t].pc =
                      IF threads[t].op = "find_candidates" /\ threads[t].pc = "lock_shared"
                      THEN "lock_files" ELSE "read_index"]
    /\ UNCHANGED <<mediaVars, indexVars, parVars, files_mutex>>

\* build_hash_index(file_id, *file_entry->fingerprint)
BuildHashIndex(t) ==
    /\ threads[t].pc = "build_hash_index"
    /\ hash_index' = build_hash_index(hash_index, threads[t].file_id,
                                      threads[t].batch[threads[t].i].fp[1])
    /\ threads' = [threads EXCEPT ![t].pc = "push_back"]
    /\ UNCHANGED <<mediaVars, files, hash_threshold, comparator, call, accepted, parVars,
                   files_mutex, index_mutex>>

\* files_.push_back(std::move(file_entry)), then the return of add_file or the
\* next loop head of add_files_batch
PushBack(t) ==
    /\ threads[t].pc = "push_back"
    /\ files' = AppendEntry(files, FileEntry(threads[t].batch[threads[t].i].path,
                                             threads[t].batch[threads[t].i].fp))
    /\ accepted' = Append(accepted, [file_id |-> threads[t].file_id,
                                     path |-> threads[t].batch[threads[t].i].path,
                                     fingerprint |-> threads[t].batch[threads[t].i].fp[1]])
    /\ threads' = [threads EXCEPT
                      ![t].pc = ElementPc(threads[t].batch, threads[t].i + 1),
                      ![t].i = threads[t].i + 1,
                      ![t].file_id = NextFileId(files')]
    /\ UNCHANGED <<mediaVars, hash_index, hash_threshold, comparator, call, parVars,
                   files_mutex, index_mutex>>

\* The reads of files_: `file_id >= files_.size()` and files_[file_id] in
\* find_candidates and get_file, files_.size() in get_file_count
ReadFiles(t) ==
    /\ threads[t].pc = "read_files"
    /\ threads' = [threads EXCEPT ![t] =
          IF threads[t].op = "find_candidates"
          THEN [threads[t] EXCEPT !.pc = IF threads[t].file_id >= Len(files)
                                         THEN "return" ELSE "lock_shared_again"]
          ELSE IdleThread]
    /\ UNCHANGED <<mediaVars, indexVars, parVars, files_mutex, index_mutex>>

\* The body of find_candidates(const Fingerprint&): the lookups in hash_index_
ReadIndex(t) ==
    /\ threads[t].pc = "read_index"
    /\ threads' = [threads EXCEPT ![t].pc = "return"]
    /\ UNCHANGED <<mediaVars, indexVars, parVars, files_mutex, index_mutex>>

\* A return or a throw: the locks of the call are released
Leave(t) ==
    /\ threads[t].pc \in {"return", "throw"}
    /\ files_mutex' = IF files_mutex = t THEN 0 ELSE files_mutex
    /\ index_mutex' = Unlocked(index_mutex, t)
    /\ threads' = [threads EXCEPT ![t] = IdleThread]
    /\ UNCHANGED <<mediaVars, indexVars, parVars>>

\* clear: hash_index_.clear()
ClearHashIndex(t) ==
    /\ threads[t].pc = "clear_index"
    /\ hash_index' = ClearedIndex(hash_index)
    /\ threads' = [threads EXCEPT ![t].pc = "clear_files"]
    /\ UNCHANGED <<mediaVars, files, hash_threshold, comparator, call, accepted, parVars,
                   files_mutex, index_mutex>>

\* clear: files_.clear()
ClearFiles(t) ==
    /\ threads[t].pc = "clear_files"
    /\ files' = ClearedFiles(files)
    /\ accepted' = <<>>
    /\ threads' = [threads EXCEPT ![t] = IdleThread]
    /\ UNCHANGED <<mediaVars, hash_index, hash_threshold, comparator, call, parVars,
                   files_mutex, index_mutex>>

InitLocks ==
    /\ files = <<>>
    /\ hash_index = [h \in {} |-> <<>>]
    /\ hash_threshold = DEFAULT_HASH_THRESHOLD
    /\ comparator = NewComparator
    /\ call = [op |-> "new", outcome |-> "ok"]
    /\ accepted = <<>>
    /\ workers = <<>>
    /\ processed = <<>>
    /\ next_file_id = 0
    /\ raw_groups = <<>>
    /\ threads = [t \in 1..NumCallers |-> IdleThread]
    /\ files_mutex = 0
    /\ index_mutex = [writer |-> 0, readers |-> [t \in 1..NumCallers |-> 0]]
    /\ loader = NewLoader
    /\ pool = NewPool
    /\ heap = [live |-> NewHeap, corrupted |-> FALSE]
    /\ held = [by |-> {}, allocations |-> 0]

NextLocks ==
    \/ \E t \in DOMAIN threads : CallAddFile(t)
    \/ \E t \in DOMAIN threads : CallAddFilesBatch(t)
    \/ \E t \in DOMAIN threads : CallFindCandidatesById(t)
    \/ \E t \in DOMAIN threads : CallFindCandidatesByFingerprint(t)
    \/ \E t \in DOMAIN threads : CallGetFile(t)
    \/ \E t \in DOMAIN threads : CallGetFileCount(t)
    \/ \E t \in DOMAIN threads : CallClear(t)
    \/ \E t \in DOMAIN threads : LockFilesMutex(t)
    \/ \E t \in DOMAIN threads : LockIndexMutex(t)
    \/ \E t \in DOMAIN threads : LockShared(t)
    \/ \E t \in DOMAIN threads : BuildHashIndex(t)
    \/ \E t \in DOMAIN threads : PushBack(t)
    \/ \E t \in DOMAIN threads : ReadFiles(t)
    \/ \E t \in DOMAIN threads : ReadIndex(t)
    \/ \E t \in DOMAIN threads : Leave(t)
    \/ \E t \in DOMAIN threads : ClearHashIndex(t)
    \/ \E t \in DOMAIN threads : ClearFiles(t)

SpecLocks == InitLocks /\ [][NextLocks]_vars

\* the steps of a call of thread t once it is made: its lock operations, its
\* sections and its return
Proceed(t) ==
    \/ LockFilesMutex(t)
    \/ LockIndexMutex(t)
    \/ LockShared(t)
    \/ BuildHashIndex(t)
    \/ PushBack(t)
    \/ ReadFiles(t)
    \/ ReadIndex(t)
    \/ Leave(t)

\* add_file, add_files_batch and find_candidates(file_id) called by the
\* threads, no other operation of the index
NextAddFind ==
    \/ \E t \in DOMAIN threads : CallAddFile(t)
    \/ \E t \in DOMAIN threads : CallAddFilesBatch(t)
    \/ \E t \in DOMAIN threads : CallFindCandidatesById(t)
    \/ \E t \in DOMAIN threads : LockFilesMutex(t)
    \/ \E t \in DOMAIN threads : LockIndexMutex(t)
    \/ \E t \in DOMAIN threads : LockShared(t)
    \/ \E t \in DOMAIN threads : BuildHashIndex(t)
    \/ \E t \in DOMAIN threads : PushBack(t)
    \/ \E t \in DOMAIN threads : ReadFiles(t)
    \/ \E t \in DOMAIN threads : ReadIndex(t)
    \/ \E t \in DOMAIN threads : Leave(t)

\* Fair scheduling: a thread whose call can take a step again and again
\* takes it in the end, so a thread waiting for a lock gets it when the lock
\* is released again and again.  Whether a thread makes a call is left open.
SpecLocksFair ==
    InitLocks /\ [][NextAddFind]_vars /\ \A t \in 1..NumCallers : SF_vars(Proceed(t))

(***************************************************************************)
(* Properties of the index under a single caller (specification Spec).     *)
(***************************************************************************)
Members(group) == {group.file_ids[i] : i \in 1..Len(group.file_ids)}

NoFileInTwoGroups(groups) ==
    \A i, j \in 1..Len(groups) : i # j => Members(groups[i]) \cap Members(groups[j]) = {}

IsDup(a, b) == compare(comparator, files[a + 1].fingerprint, files[b + 1].fingerprint).is_duplicate

\* C2: in the groups returned by the sequential find_all_duplicates each
\* file_id appears in at most one group.
C2_SequentialGroupsDisjoint ==
    call.op = "find_all_duplicates" => NoFileInTwoGroups(call.result)

\* find_all_duplicates returned the group {0, 1} and left out file 2, a
\* duplicate of the already processed file 1.
C2_Witness ==
    /\ call.op = "find_all_duplicates"
    /\ Len(files) = 3
    /\ Len(call.result) = 1
    /\ Members(call.result[1]) = {0, 1}
    /\ IsDup(2, 1)

\* C3 as stated: every pair of distinct members of a returned group is a
\* duplicate pair under compare.
C3_EveryPairDuplicate ==
    call.op = "find_all_duplicates" =>
        \A g \in 1..Len(call.result) :
            \A a, b \in Members(call.result[g]) : a # b => IsDup(a, b)

\* C3 amended: in every group returned by find_all_duplicates the member of
\* smallest file_id (the seed the group was formed for) and every other
\* member m satisfy compare(fingerprint of seed, fingerprint of m).is_duplicate.
C3_SeedPairsDuplicate ==
    call.op = "find_all_duplicates" =>
        \A g \in 1..Len(call.result) :
            \A m \in Members(call.result[g]) :
                m # call.result[g].file_ids[1] => IsDup(call.result[g].file_ids[1], m)

\* A group of three whose two non-seed members are not duplicates of
\* each other.
C3_Witness ==
    /\ call.op = "find_all_duplicates"
    /\ Len(call.result) = 1
    /\ Members(call.result[1]) = {0, 1, 2}
    /\ ~IsDup(1, 2)

PostingsOf(h) == IF h \in DOMAIN hash_index THEN hash_index[h] ELSE <<>>

\* C7: the posting list of hash h holds (f, p) exactly once iff f is a stored
\* file_id, p a position of f's fingerprint and the low 16 bits of the entry
\* at p are h; there are no other postings, and the postings of one file are
\* in increasing position order.
C7_PostingsExact ==
    /\ \A h \in DOMAIN hash_index : \A k \in 1..Len(hash_index[h]) :
          /\ hash_index[h][k].file_id \in 0..(Len(files) - 1)
          /\ hash_index[h][k].position \in
                 0..(Len(files[hash_index[h][k].file_id + 1].fingerprint) - 1)
          /\ Low16(files[hash_index[h][k].file_id + 1].fingerprint[
                       hash_index[h][k].position + 1]) = h
    /\ \A f \in 0..(Len(files) - 1) : \A p \in 0..(Len(files[f + 1].fingerprint) - 1) :
          Cardinality({k \in 1..Len(PostingsOf(Low16(files[f + 1].fingerprint[p + 1]))) :
                          PostingsOf(Low16(files[f + 1].fingerprint[p + 1]))[k]
                              = [file_id |-> f, position |-> p]}) = 1
    /\ \A h \in DOMAIN hash_index : \A k1, k2 \in 1..Len(hash_index[h]) :
          (k1 < k2 /\ hash_index[h][k1].file_id = hash_index[h][k2].file_id)
              => hash_index[h][k1].position < hash_index[h][k2].position

\* One posting list holds two postings of one file and postings of another.
C7_Witness ==
    \E h \in DOMAIN hash_index : \E k1, k2, k3 \in 1..Len(hash_index[h]) :
        /\ k1 # k2
        /\ hash_index[h][k1].file_id = hash_index[h][k2].file_id
        /\ hash_index[h][k3].file_id # hash_index[h][k1].file_id

\* C8: the n-th accepted fingerprint has file_id n - 1, get_file(n - 1) yields
\* the path and fingerprint passed with it, and a successful add_files_batch
\* returns the ids of its elements in input order.
C8_IdsInCallOrder ==
    /\ \A n \in 1..Len(accepted) :
          /\ accepted[n].file_id = n - 1
          /\ get_file(files, n - 1)
                 = <<[file_path |-> accepted[n].path,
                      fingerprint |-> accepted[n].fingerprint]>>
    /\ get_file_count(files) = Len(accepted)
    /\ (call.op = "add_file" /\ call.outcome = "ok") =>
          /\ call.result = Len(accepted) - 1
          /\ get_file(files, call.result) = <<FileEntry(call.arg.path, call.arg.fp)>>
    /\ (call.op = "add_files_batch" /\ call.outcome = "ok") =>
          /\ Len(call.result) = Len(call.arg)
          /\ \A i \in 1..Len(call.arg) :
                /\ call.result[i] = Len(accepted) - Len(call.arg) + i - 1
                /\ get_file(files, call.result[i])
                       = <<FileEntry(call.arg[i].path, call.arg[i].fp)>>

\* A batch of two different elements was accepted after an earlier add.
C8_Witness ==
    /\ call.op = "add_files_batch"
    /\ call.outcome = "ok"
    /\ Len(call.arg) = 2
    /\ call.arg[1] # call.arg[2]
    /\ Len(accepted) = 3

\* Every entry and every posting of the state before the step is still there,
\* at the same place, after it.
OnlyGrows ==
    /\ Len(files') >= Len(files)
    /\ \A i \in 1..Len(files) : files'[i] = files[i]
    /\ \A h \in DOMAIN hash_index :
          /\ h \in DOMAIN hash_index'
          /\ Len(hash_index'[h]) >= Len(hash_index[h])
          /\ \A k \in 1..Len(hash_index[h]) : hash_index'[h][k] = hash_index[h][k]

\* C9 as stated: across every public operation, clear included, the file
\* store and the hash index only grow.
C9_StoreOnlyGrows == [][OnlyGrows]_vars

\* C9 amended: across every public operation other than clear the file store
\* and the hash index only grow (an entry stays at its file_id with the same
\* path and fingerprint, no posting is removed); clear empties both.
C9_StoreGrowsUnlessCleared ==
    [][IF call'.op = "clear"
       THEN files' = <<>> /\ DOMAIN hash_index' = {}
       ELSE OnlyGrows]_vars

\* An entry was appended behind two stored entries.
C9_Witness ==
    /\ call.op = "add_file"
    /\ call.outcome = "ok"
    /\ Len(files) = 3

\* C10: add_file with a null fingerprint or one without entries raises
\* invalid_argument and leaves the file count, every posting list and the
\* next file_id as they were.
C10_InvalidAddRejected ==
    [][(call'.op = "add_file" /\ call'.arg \in InvalidInputs) =>
          /\ call'.outcome = "invalid_argument"
          /\ get_file_count(files') = get_file_count(files)
          /\ files' = files
          /\ hash_index' = hash_index
          /\ NextFileId(files') = NextFileId(files)]_vars

\* add_file rejected a fingerprint without entries on an index that holds files.
C10_Witness ==
    /\ call.op = "add_file"
    /\ call.outcome = "invalid_argument"
    /\ call.arg.fp = Ptr(<<>>)
    /\ Len(files) >= 1

(***************************************************************************)
(* Properties of find_all_duplicates_parallel (specification SpecPar).     *)
(***************************************************************************)
ParallelReturned ==
    call.op = "find_all_duplicates_parallel" /\ call.outcome = "ok"

\* C1: for every interleaving of the workers of find_all_duplicates_parallel
\* each file_id appears in at most one of the returned groups.
C1_ParallelGroupsDisjoint ==
    ParallelReturned => NoFileInTwoGroups(call.result)

\* C4: find_all_duplicates_parallel returns the groups the sequential
\* find_all_duplicates returns on the same index (same members, same average
\* similarities, same order up to ties), whatever the thread count and schedule.
C4_ParallelMatchesSequential ==
    ParallelReturned =>
        call.result \in find_all_duplicates(files, hash_index, hash_threshold, comparator)

\* a discovery call, sequential or parallel, has returned
DiscoveryReturned ==
    /\ call.op \in {"find_all_duplicates", "find_all_duplicates_parallel"}
    /\ call.outcome = "ok"

\* the pairs of different members of a group, lower file_id first
MemberPairs(group) == {p \in Members(group) \X Members(group) : p[1] < p[2]}

\* the sum of compare's similarity over the pairs of members
PairSimilaritySum(group) ==
    SumFrac([p \in MemberPairs(group) |->
                compare(comparator, files[p[1] + 1].fingerprint,
                        files[p[2] + 1].fingerprint).similarity_score],
            MemberPairs(group))

\* avg_similarity * (number of pairs) = sum of the pair similarities
MeanOfPairs(group) ==
    FracEq(<<group.avg_similarity[1] * Cardinality(MemberPairs(group)),
             group.avg_similarity[2]>>,
           PairSimilaritySum(group))

AscendingIds(group) ==
    \A i \in 1..(Len(group.file_ids) - 1) : group.file_ids[i] < group.file_ids[i + 1]

\* C13: every group returned by find_all_duplicates and by
\* find_all_duplicates_parallel has at least 2 members, its file_ids strictly
\* ascending and its avg_similarity the mean of compare's similarity over all
\* pairs of members, and the list is ordered by avg_similarity, highest first.
C13_GroupsWellFormed ==
    DiscoveryReturned =>
        /\ \A i \in DOMAIN call.result :
              /\ Len(call.result[i].file_ids) >= 2
              /\ AscendingIds(call.result[i])
              /\ MeanOfPairs(call.result[i])
        /\ \A i \in 1..(Len(call.result) - 1) :
              FracLe(call.result[i + 1].avg_similarity, call.result[i].avg_similarity)

\* The parallel discovery returned a group of three members.
C13_Witness ==
    /\ call.op = "find_all_duplicates_parallel"
    /\ call.outcome = "ok"
    /\ \E i \in DOMAIN call.result : Len(call.result[i].file_ids) = 3

(***************************************************************************)
(* Properties of the index under several callers (specification SpecLocks).*)
(***************************************************************************)
\* the thread is inside add_file or add_files_batch, writing hash_index_
ModifyingIndex(t) == threads[t].op \in AddOps /\ threads[t].pc = "build_hash_index"

\* the thread is inside find_candidates, reading hash_index_
ReadingIndex(t) ==
    threads[t].op \in {"find_candidates", "find_candidates_fp"} /\ threads[t].pc = "read_index"

\* C5: while an add_file or add_files_batch call is modifying the hash index
\* no find_candidates call is reading it, and while a find_candidates call is
\* reading it no add_file or add_files_batch call modifies it.
C5_AddExcludesFindCandidates ==
    \A t, u \in DOMAIN threads : ~(ModifyingIndex(t) /\ ReadingIndex(u))

\* An add call is modifying the hash index while a find_candidates call of
\* another thread waits for its shared lock.
C5_Witness ==
    \E t, u \in DOMAIN threads :
        /\ ModifyingIndex(t)
        /\ threads[u].op \in {"find_candidates", "find_candidates_fp"}
        /\ threads[u].pc = "lock_shared"

ReadingFiles(t) == threads[t].pc = "read_files"

AppendingFiles(t) == threads[t].pc = "push_back"

WritingFiles(t) == threads[t].pc \in {"push_back", "clear_files"}

\* C6: every read or write of the FileEntry store by a public operation
\* happens while the thread holds files_mutex_, so no read of the store
\* overlaps an append to it.
C6_FileStoreAccessLocked ==
    /\ \A t \in DOMAIN threads : (ReadingFiles(t) \/ WritingFiles(t)) => files_mutex = t
    /\ \A t, u \in DOMAIN threads : ~(AppendingFiles(t) /\ ReadingFiles(u))

\* C29: when add_file (or add_files_batch) and find_candidates(file_id) run
\* concurrently on the same index, under fair scheduling every call
\* eventually returns.
C29_EveryCallReturns ==
    \A t \in 1..NumCallers : (threads[t].pc # "idle") ~> (threads[t].pc = "idle")

(***************************************************************************)
(* compare_sliding_window                                                  *)
(***************************************************************************)
\* int window_size = 60
WINDOW_SIZE == 60

\* the step of the window over fp2: j += 6
WINDOW_STEP == 6

\* std::vector<uint32_t>(fp.begin() + i, fp.begin() + i + window_size)
Window(fp, i) == SubSeq(fp, i + 1, i + WINDOW_SIZE)

\* similarity >= similarity_threshold_ * 0.8
NearThreshold(c, similarity) ==
    FracLe(<<c.similarity_threshold[1] * 8, c.similarity_threshold[2] * 10>>, similarity)

\* The similarity of window i of fp1 with every window of fp2 the inner loop
\* visits: iteration k is at j = k * 6
WindowSimilarities(fp1, fp2, i) ==
    Stored([k \in 0..((Len(fp2) - WINDOW_SIZE) \div WINDOW_STEP) |->
               calculate_similarity_at_offset(Window(fp1, i),
                                              Window(fp2, k * WINDOW_STEP), 0)])

\* (best_offset, best_similarity) after the inner loop for window i: the loop
\* replaces them only by a similarity strictly above best_similarity that is
\* also near the threshold, so it ends with the first window of the highest
\* similarity when that similarity is above 0.0 and near the threshold, and
\* with its initial (0, 0.0) otherwise
BestWindow(c, i, similarities) ==
    IF /\ FracLt(Zero, similarities[FirstHighest(similarities)])
       /\ NearThreshold(c, similarities[FirstHighest(similarities)])
    THEN <<FirstHighest(similarities) * WINDOW_STEP - i,
           similarities[FirstHighest(similarities)]>>
    ELSE <<0, Zero>>

\* The (offset, similarity) pairs of the windows i = 0, 30, 60, ... of fp1,
\* before the test that records them
WindowMatches(c, fp1, fp2) ==
    [m \in 1..(((Len(fp1) - WINDOW_SIZE) \div (WINDOW_SIZE \div 2)) + 1) |->
        BestWindow(c, (m - 1) * (WINDOW_SIZE \div 2),
                   WindowSimilarities(fp1, fp2, (m - 1) * (WINDOW_SIZE \div 2)))]

\* segment_matches before the sort: if (best_similarity >= threshold * 0.8)
RecordedMatches(c, window_matches) ==
    SelectSeq(window_matches, LAMBDA match : NearThreshold(c, match[2]))

\* What std::sort by similarity (highest first) may leave
SortedMatches(recorded) ==
    {sorted \in {[i \in 1..Len(recorded) |-> recorded[p[i]]] : p \in Perms(1..Len(recorded))} :
        \A i \in 1..(Len(sorted) - 1) : FracLe(sorted[i + 1][2], sorted[i][2])}

\* filtered_matches when no match is removed for being close to another
RemoveOverlaps_keeping_all(sorted, k, filtered_matches) == sorted

RECURSIVE RemoveOverlaps(_, _, _)
\* filtered_matches: a match is kept unless its offset is less than
\* window_size / 2 away from the offset of a match kept before it
RemoveOverlaps(sorted, k, filtered_matches) ==
    IF k > Len(sorted) THEN filtered_matches
    ELSE IF \E e \in 1..Len(filtered_matches) :
                Abs(sorted[k][1] - filtered_matches[e][1]) < WINDOW_SIZE \div 2
         THEN RemoveOverlaps(sorted, k + 1, filtered_matches)
         ELSE RemoveOverlaps(sorted, k + 1, Append(filtered_matches, sorted[k]))

\* The lists find_segment_matches may return
find_segment_matches(c, fp1, fp2) ==
    IF Len(fp1) < WINDOW_SIZE \/ Len(fp2) < WINDOW_SIZE THEN {<<>>}
    ELSE {RemoveOverlaps(sorted, 1, <<>>) :
             sorted \in SortedMatches(RecordedMatches(c, WindowMatches(c, fp1, fp2)))}

calculate_coverage_ratio(segment_matches, total_length) ==
    IF Len(segment_matches) = 0 \/ total_length = 0 THEN Zero
    ELSE <<Min(Len(segment_matches) * WINDOW_SIZE, total_length), total_length>>

RECURSIVE TotalSimilarity(_, _)
\* total_similarity: the sum of similarity * weight, the weight the similarity
TotalSimilarity(segment_matches, k) ==
    IF k > Len(segment_matches) THEN Zero
    ELSE FracAdd(Norm(<<segment_matches[k][2][1] * segment_matches[k][2][1],
                        segment_matches[k][2][2] * segment_matches[k][2][2]>>),
                 TotalSimilarity(segment_matches, k + 1))

RECURSIVE TotalWeight(_, _)
TotalWeight(segment_matches, k) ==
    IF k > Len(segment_matches) THEN Zero
    ELSE FracAdd(Norm(segment_matches[k][2]), TotalWeight(segment_matches, k + 1))

\* total_weight > 0 ? total_similarity / total_weight : 0.0
WeightedSimilarity(total_similarity, total_weight) ==
    IF FracLt(Zero, total_weight)
    THEN Norm(<<total_similarity[1] * total_weight[2], total_similarity[2] * total_weight[1]>>)
    ELSE Zero

SlidingDefaultResult ==
    [similarity_score |-> Zero, best_offset |-> 0, matched_segments |-> 0,
     bit_error_rate |-> One, is_duplicate |-> FALSE, segment_matches |-> <<>>,
     coverage_ratio |-> Zero]

\* is_duplicate of compare_sliding_window
SlidingIsDuplicate(c, similarity_score, bit_error_rate, coverage_ratio, matched_segments) ==
    /\ FracLe(c.similarity_threshold, similarity_score)
    /\ FracLe(bit_error_rate, c.bit_error_threshold)
    /\ FracLe(<<1, 2>>, coverage_ratio)
    /\ matched_segments >= 3

SlidingMatchResult(c, segment_matches, similarity_score, bit_error_rate, coverage_ratio) ==
    [similarity_score |-> similarity_score,
     best_offset |-> segment_matches[1][1],
     matched_segments |-> Len(segment_matches),
     bit_error_rate |-> bit_error_rate,
     is_duplicate |-> SlidingIsDuplicate(c, similarity_score, bit_error_rate,
                                         coverage_ratio, Len(segment_matches)),
     segment_matches |-> segment_matches,
     coverage_ratio |-> coverage_ratio]

\* compare_sliding_window once the segment matches are known
SlidingResult(c, fp1, fp2, segment_matches) ==
    IF Len(segment_matches) = 0 THEN SlidingDefaultResult
    ELSE SlidingMatchResult(
             c, segment_matches,
             WeightedSimilarity(TotalSimilarity(segment_matches, 1),
                                TotalWeight(segment_matches, 1)),
             calculate_bit_error_rate(fp1, fp2, segment_matches[1][1]),
             calculate_coverage_ratio(segment_matches, Max(Len(fp1), Len(fp2))))

\* The results compare_sliding_window may return (one for every order the
\* sort may leave matches of equal similarity in)
compare_sliding_window(c, fp1, fp2) ==
    IF Len(fp1) < c.minimum_overlap \/ Len(fp2) < c.minimum_overlap
    THEN {SlidingDefaultResult}
    ELSE IF ~quick_filter(c, fp1, fp2) THEN {SlidingDefaultResult}
    ELSE {SlidingResult(c, fp1, fp2, segment_matches) :
             segment_matches \in find_segment_matches(c, fp1, fp2)}

(***************************************************************************)
(* FingerprintComparator called on its own: the setters, compare and        *)
(* compare_sliding_window, each call one step.  comparator holds the        *)
(* configuration; call holds the last call with, for a comparison, the two  *)
(* fingerprints passed and what the call handed back.  The index is left    *)
(* as constructed.                                                          *)
(***************************************************************************)
\* The fingerprint [1, 2, ..., n]: entry i is the number i, so all 16-bit
\* hashes differ
Ramp(n) == [i \in 1..n |-> {b \in 0..15 : (i \div (2 ^ b)) % 2 = 1}]

\* n entries 0x00000001: one 16-bit hash, repeated
Constant(n) == [i \in 1..n |-> {0}]

\* The entries 1, 2, ..., p repeated up to length n
Periodic(n, p) == [i \in 1..n |-> Ramp(p)[((i - 1) % p) + 1]]

\* fp[s:]
DropFront(fp, s) == SubSeq(fp, s + 1, Len(fp))

\* Fingerprints shorter than the default minimum overlap, the empty one included
ShortFingerprints == {<<>>, FpA, FpB, FpC, FpD}

\* Fingerprints of at least the default minimum overlap
LongFingerprints ==
    {Ramp(10), Constant(10), Periodic(10, 2), Periodic(12, 3), Periodic(13, 6)}

\* The number of leading entries dropped from a fingerprint to make a shifted copy
ShiftArgs == {10}

\* Fingerprints of which a shifted copy is compared
ShiftedFingerprints == {Ramp(20), Ramp(22), Constant(22)}

\* Fingerprints of at least one window of compare_sliding_window
WindowedFingerprints == {Constant(120), Ramp(120)}

\* every entry with its highest bit set as well
Marked(fp) == [i \in 1..Len(fp) |-> fp[i] \cup {31}]

\* the middle of Ramp(120), marked, followed by the first half of Ramp(120)
SwappedHalves == Marked(SubSeq(Ramp(120), 31, 90)) \o SubSeq(Ramp(120), 1, 60)

\* The pairs compare_sliding_window is called with
SlidingPairs ==
    (ShortFingerprints \X ShortFingerprints)
    \cup {<<fp, fp>> : fp \in WindowedFingerprints}
    \cup {<<Constant(120), Constant(90)>>, <<Ramp(120), SwappedHalves>>}

\* The pairs compare is called with
ComparePairs ==
    (ShortFingerprints \X ShortFingerprints)
    \cup {<<fp, fp>> : fp \in LongFingerprints}
    \cup {<<fp, DropFront(fp, s)>> : fp \in ShiftedFingerprints, s \in ShiftArgs}
    \cup {<<DropFront(fp, s), fp>> : fp \in ShiftedFingerprints, s \in ShiftArgs}
    \cup {<<FpE, FpF>>}

\* Arguments of the comparator's setters (the thresholds are clamped to [0, 1])
ClampedSimilarityArgs == {<<-1, 2>>}

ClampedBitErrorArgs == {<<3, 2>>}

MinimumOverlapArgs == {0, 2}

AlignmentOffsetArgs == {2}

AlignmentStepArgs == {1}

\* What compare hands back to its caller: the code has no path that raises
CompareOutcome(c, fp1, fp2) == "ok"

\* call after a setter of the comparator
Configured == [op |-> "configure", outcome |-> "ok"]

\* compare and compare_sliding_window are const: the model takes the
\* comparisons of a configuration one by one, each from the state the
\* construction or a setter left
Compare ==
    /\ call.op \notin {"compare", "compare_sliding_window"}
    /\ \E pair \in ComparePairs :
          call' = [op |-> "compare", fp1 |-> pair[1], fp2 |-> pair[2],
                   outcome |-> CompareOutcome(comparator, pair[1], pair[2]),
                   result |-> compare(comparator, pair[1], pair[2])]
    /\ UNCHANGED <<mediaVars, parVars, lockVars, files, hash_index, hash_threshold, comparator, accepted>>

CompareSlidingWindow ==
    /\ call.op \notin {"compare", "compare_sliding_window"}
    /\ \E pair \in SlidingPairs :
          \E result \in compare_sliding_window(comparator, pair[1], pair[2]) :
              call' = [op |-> "compare_sliding_window", fp1 |-> pair[1], fp2 |-> pair[2],
                       outcome |-> "ok", result |-> result]
    /\ UNCHANGED <<mediaVars, parVars, lockVars, files, hash_index, hash_threshold, comparator, accepted>>

ComparatorSetSimilarityThreshold ==
    /\ \E threshold \in ClampedSimilarityArgs :
          comparator' = cmp_set_similarity_threshold(comparator, threshold)
    /\ call' = Configured
    /\ UNCHANGED <<mediaVars, parVars, lockVars, files, hash_index, hash_threshold, accepted>>

ComparatorSetBitErrorThreshold ==
    /\ \E threshold \in ClampedBitErrorArgs :
          comparator' = cmp_set_bit_error_threshold(comparator, threshold)
    /\ call' = Configured
    /\ UNCHANGED <<mediaVars, parVars, lockVars, files, hash_index, hash_threshold, accepted>>

ComparatorSetMinimumOverlap ==
    /\ \E min_overlap \in MinimumOverlapArgs :
          comparator' = cmp_set_minimum_overlap(comparator, min_overlap)
    /\ call' = Configured
    /\ UNCHANGED <<mediaVars, parVars, lockVars, files, hash_index, hash_threshold, accepted>>

ComparatorSetMaxAlignmentOffset ==
    /\ \E max_offset \in AlignmentOffsetArgs :
          comparator' = cmp_set_max_alignment_offset(comparator, max_offset)
    /\ call' = Configured
    /\ UNCHANGED <<mediaVars, parVars, lockVars, files, hash_index, hash_threshold, accepted>>

ComparatorSetAlignmentStep ==
    /\ \E step \in AlignmentStepArgs :
          comparator' = cmp_set_alignment_step(comparator, step)
    /\ call' = Configured
    /\ UNCHANGED <<mediaVars, parVars, lockVars, files, hash_index, hash_threshold, accepted>>

\* FingerprintComparator::FingerprintComparator()
InitCmp == Init

NextCmp ==
    \/ Compare
    \/ CompareSlidingWindow
    \/ ComparatorSetSimilarityThreshold
    \/ ComparatorSetBitErrorThreshold
    \/ ComparatorSetMinimumOverlap
    \/ ComparatorSetMaxAlignmentOffset
    \/ ComparatorSetAlignmentStep

SpecCmp == InitCmp /\ [][NextCmp]_vars

(***************************************************************************)
(* Properties of the comparator (specification SpecCmp).                    *)
(***************************************************************************)
\* the last call was compare
Compared == call.op = "compare"

\* C11: compare called with an empty fingerprint as either argument raises
\* an invalid-argument error instead of returning a MatchResult.
C11_EmptyFingerprintRejected ==
    (Compared /\ (Len(call.fp1) = 0 \/ Len(call.fp2) = 0)) => call.outcome = "invalid_argument"

\* the comparator has the settings of its constructor
DefaultSettings == comparator = NewComparator

\* similarity 1.0, bit error rate 0.0, offset 0, all n entries matched, duplicate
PerfectMatch(result, n) ==
    /\ FracEq(result.similarity_score, One)
    /\ FracEq(result.bit_error_rate, Zero)
    /\ result.best_offset = 0
    /\ result.matched_segments = n
    /\ result.is_duplicate

Swapped == compare(comparator, call.fp2, call.fp1)

\* the two results have the same similarity and opposite offsets
Mirrored(result, swapped) ==
    /\ FracEq(result.similarity_score, swapped.similarity_score)
    /\ result.best_offset = -swapped.best_offset

\* C15: compare(fp1, fp2) and compare(fp2, fp1) report the same similarity and
\* best_offset values that are negatives of each other, also when several
\* offsets tie for the highest similarity.
C15_SwapMirrorsOffset == Compared => Mirrored(call.result, Swapped)

\* no position of one fingerprint is compared with a position of the other
\* at the offset compare chose
NoOverlap(result) ==
    /\ result.matched_segments = 0
    /\ FracEq(result.bit_error_rate, One)

\* C16: for every comparator configuration reachable through the setters,
\* compare never reports is_duplicate = true when no positions overlap at the
\* chosen offset (matched_segments = 0, bit_error_rate = 1).
C16_NoOverlapNoDuplicate ==
    Compared => ~(NoOverlap(call.result) /\ call.result.is_duplicate)

\* C18: in every MatchResult returned by compare, similarity + bit_error_rate
\* is at most 1: both are taken at the same offset, where matching and
\* differing bits add up to 32 times the overlap, and the returns without
\* overlap and the early returns give 0 and 1.
C18_SimilarityPlusErrorAtMostOne ==
    Compared => FracLe(FracAdd(call.result.similarity_score, call.result.bit_error_rate), One)

\* compare returned a result with overlapping positions, some bits equal and
\* some different.
C18_Witness ==
    /\ Compared
    /\ call.result.matched_segments > 0
    /\ FracLt(Zero, call.result.similarity_score)
    /\ FracLt(Zero, call.result.bit_error_rate)

\* fp2 is fp1 without its first s entries
ShiftedBy(fp1, fp2, s) == s <= Len(fp1) /\ fp2 = DropFront(fp1, s)

\* best_offset -s, similarity 1.0 there, over the |fp1| - s entries left
ShiftFound(result, n, s) ==
    /\ result.best_offset = -s
    /\ FracEq(result.similarity_score, One)
    /\ result.matched_segments = n - s

\* C19: for every fingerprint fp1 and shift s with 0 < s <=
\* max_alignment_offset such that fp2 = fp1[s:] still has at least
\* minimum_overlap entries, compare(fp1, fp2) reports best_offset = -s,
\* similarity 1.0 at that offset and matched_segments = |fp1| - s.
C19_ShiftedCopyFound ==
    Compared =>
        \A s \in 1..comparator.max_alignment_offset :
            (ShiftedBy(call.fp1, call.fp2, s) /\ Len(call.fp2) >= comparator.minimum_overlap)
                => ShiftFound(call.result, Len(call.fp1), s)

\* the last call was compare_sliding_window
ComparedSliding == call.op = "compare_sliding_window"

\* the call returned before its alignment search: an argument shorter than
\* minimum_overlap, a rejection by quick_filter or, for
\* compare_sliding_window, no segment match
EarlyReturn ==
    \/ Len(call.fp1) < comparator.minimum_overlap
    \/ Len(call.fp2) < comparator.minimum_overlap
    \/ ~quick_filter(comparator, call.fp1, call.fp2)
    \/ (ComparedSliding /\ call.result.segment_matches = <<>>)

WithinThresholds(result) ==
    /\ FracLe(comparator.similarity_threshold, result.similarity_score)
    /\ FracLe(result.bit_error_rate, comparator.bit_error_threshold)

\* C17: whenever compare or compare_sliding_window returns is_duplicate =
\* true, the returned similarity is at least the similarity threshold and the
\* returned bit error rate at most the bit-error threshold; every early
\* return (too-short input, quick-filter rejection, no segment match) returns
\* is_duplicate = false.
C17_DuplicateWithinThresholds ==
    (Compared \/ ComparedSliding) =>
        /\ call.result.is_duplicate => WithinThresholds(call.result)
        /\ EarlyReturn => ~call.result.is_duplicate

\* compare_sliding_window returned is_duplicate = true under the default
\* thresholds, from three segment matches.
C17_Witness ==
    /\ ComparedSliding
    /\ comparator.similarity_threshold = DEFAULT_SIMILARITY_THRESHOLD
    /\ comparator.bit_error_threshold = DEFAULT_BIT_ERROR_THRESHOLD
    /\ call.result.is_duplicate
    /\ Len(call.result.segment_matches) = 3

(***************************************************************************)
(* The index queried under every hash threshold: add_file, set_hash_        *)
(* threshold and find_candidates(const Fingerprint&), the query keeping in  *)
(* call the fingerprint passed and the list returned.                       *)
(***************************************************************************)
\* arguments of set_hash_threshold(size_t)
AnyHashThresholdArgs == {0, 2}

SetAnyHashThreshold ==
    /\ \E threshold \in AnyHashThresholdArgs :
          /\ hash_threshold' = threshold
          /\ call' = [op |-> "set_hash_threshold", outcome |-> "ok"]
    /\ UNCHANGED <<mediaVars, parVars, lockVars, files, hash_index, comparator, accepted>>

QueryCandidates ==
    /\ \E data \in QueryFingerprints :
          \E result \in find_candidates(hash_index, hash_threshold, data) :
              call' = [op |-> "find_candidates", arg |-> data, outcome |-> "ok",
                       result |-> result]
    /\ UNCHANGED <<mediaVars, parVars, lockVars, files, hash_index, hash_threshold, comparator, accepted>>

NextQuery ==
    \/ AddFile
    \/ SetAnyHashThreshold
    \/ QueryCandidates

SpecQuery == Init /\ [][NextQuery]_vars

(***************************************************************************)
(* Properties of find_candidates (specification SpecQuery).                 *)
(***************************************************************************)
\* the number of (query position, position of fp) pairs with equal 16-bit hash
SharedVotes(data, fp) ==
    Cardinality({p \in (DOMAIN data) \X (DOMAIN fp) : Low16(data[p[1]]) = Low16(fp[p[2]])})

\* the vote count of stored file file_id for the query data
VotesOf(data, file_id) == SharedVotes(data, files[file_id + 1].fingerprint)

\* the list returned holds no file_id twice, holds exactly the stored files
\* whose vote count is at least threshold, and is ordered by vote count
ExactCandidates(data, result, threshold) ==
    /\ \A i, j \in DOMAIN result : i # j => result[i] # result[j]
    /\ {result[i] : i \in DOMAIN result}
         = {f \in 0..(Len(files) - 1) : VotesOf(data, f) >= threshold}
    /\ \A i, j \in DOMAIN result : i < j => VotesOf(data, result[i]) >= VotesOf(data, result[j])

\* C12: find_candidates(fp) returns, each at most once, exactly the stored
\* file_ids whose vote count is at least hash_threshold, ordered by vote count
\* (non-increasing), the vote count of a file being the number of (query
\* position, posting of the file) pairs with equal 16-bit hash.
C12_CandidatesExact ==
    call.op = "find_candidates" => ExactCandidates(call.arg, call.result, hash_threshold)

\* C12 (amended): find_candidates(fp) returns, each at most once, exactly the
\* stored file_ids whose vote count is at least hash_threshold and at least 1,
\* ordered by vote count (non-increasing).
C12_CandidatesWithVotes ==
    call.op = "find_candidates"
        => ExactCandidates(call.arg, call.result, Max(1, hash_threshold))

\* A query returned two candidates of different vote counts.
C12_Witness ==
    /\ call.op = "find_candidates"
    /\ Len(call.result) >= 2
    /\ VotesOf(call.arg, call.result[1]) > VotesOf(call.arg, call.result[2])

(***************************************************************************)
(* ChromaprintWrapper::generate_fingerprint_with_smart_doubling.  A vector  *)
(* of float samples is written as its runs of equal samples, [value, count] *)
(* with the value an exact fraction; a double is an exact fraction too.     *)
(* call holds the AudioData and the config passed and what the call did.    *)
(***************************************************************************)
\* const double MIN_DURATION_THRESHOLD = 3.0
MIN_DURATION_THRESHOLD == <<3, 1>>

\* std::vector::size() of a vector given by its runs
RECURSIVE Size(_)
Size(samples) ==
    IF samples = <<>> THEN 0 ELSE samples[1].count + Size(SubSeq(samples, 2, Len(samples)))

\* a vector of output_size samples, all of one value
Run(value, output_size) ==
    IF output_size = 0 THEN <<>> ELSE <<[value |-> value, count |-> output_size]>>

\* AudioLoader::linear_resample of a signal of one value: output_size is
\* input.size() * ratio truncated, and every output sample is interpolated
\* between two samples of that value or is the last of them
linear_resample(input, input_rate, output_rate) ==
    IF input_rate = output_rate THEN input
    ELSE Run(input[1].value, OutputSize(Size(input), input_rate, output_rate))

\* what linear_resample returned, in an AudioData of the target rate
Resampled(input, samples, target_sample_rate) ==
    [samples |-> samples,
     sample_rate |-> target_sample_rate,
     channels |-> input.channels,
     frames |-> Size(samples),
     duration |-> Norm(<<Size(samples), target_sample_rate>>),
     original_duration |-> input.original_duration]

\* AudioLoader::resample
resample(input, target_sample_rate) ==
    IF input.sample_rate = target_sample_rate THEN input
    ELSE Resampled(input,
                   linear_resample(input.samples, input.sample_rate, target_sample_rate),
                   target_sample_rate)

\* data_to_use: the audio data, resampled when its rate is not Chromaprint's
DataToUse(audio_data) ==
    IF audio_data.sample_rate # CHROMAPRINT_SAMPLE_RATE
    THEN resample(audio_data, CHROMAPRINT_SAMPLE_RATE)
    ELSE audio_data

\* a / b of two doubles; b = 0.0 leaves the denominator 0, which FracLt takes
\* as not below anything, as the code's comparison with inf or NaN
FracDiv(a, b) ==
    IF b[1] = 0 THEN <<a[1] * b[2], 0>> ELSE Norm(<<a[1] * b[2], a[2] * b[1]>>)

\* double trimming_ratio = data_to_use->duration / data_to_use->original_duration
trimming_ratio(data_to_use) == FracDiv(data_to_use.duration, data_to_use.original_duration)

\* should_double without the test of the original duration: audio trimmed
\* below the ratio is never doubled
should_double_never_after_trim(data_to_use, config) ==
    /\ FracLt(data_to_use.duration, MIN_DURATION_THRESHOLD)
    /\ \/ config = <<>>
       \/ ~config[1].disable_doubling_after_trim
       \/ ~FracLt(trimming_ratio(data_to_use), config[1].doubling_threshold_ratio)

\* should_double after the smart doubling logic; config is <<>> for nullptr and
\* <<c>> for a pointer to the PreprocessConfig c
should_double(data_to_use, config) ==
    IF FracLt(data_to_use.duration, MIN_DURATION_THRESHOLD)
    THEN IF config # <<>> /\ config[1].disable_doubling_after_trim
         THEN IF FracLt(trimming_ratio(data_to_use), config[1].doubling_threshold_ratio)
              THEN FracLe(config[1].min_duration_for_doubling, data_to_use.original_duration)
              ELSE TRUE
         ELSE TRUE
    ELSE FALSE

\* samples_to_process: the samples, and once more after their end if doubled
SamplesToProcess(samples, doubled) ==
    IF doubled THEN samples \o samples ELSE samples

\* std::max(-1.0f, std::min(1.0f, sample))
Clamped(sample) ==
    IF FracLt(One, sample) THEN One
    ELSE IF FracLt(sample, <<-1, 1>>) THEN <<-1, 1>>
    ELSE sample

\* static_cast<int16_t>(clamped * 32767.0f): truncation towards zero
ToInt16(clamped) ==
    IF clamped[1] >= 0 THEN (clamped[1] * 32767) \div clamped[2]
    ELSE -((-clamped[1] * 32767) \div clamped[2])

\* int_samples: every sample clamped and converted to 16 bits
IntSamples(samples_to_process) ==
    [k \in 1..Len(samples_to_process) |->
        [value |-> ToInt16(Clamped(samples_to_process[k].value)),
         count |-> samples_to_process[k].count]]

\* The call once the empty check is passed.  chromaprint_ok is whether
\* chromaprint_start, _feed, _finish and _get_raw_fingerprint all succeeded;
\* the sub-fingerprints are the library's and are left out of the Fingerprint
SmartDoubling(audio_data, config, data_to_use, doubled, chromaprint_ok) ==
    [op |-> "generate_fingerprint_with_smart_doubling",
     audio_data |-> audio_data,
     config |-> config,
     data_to_use |-> data_to_use,
     should_double |-> doubled,
     samples_to_process |-> SamplesToProcess(data_to_use.samples, doubled),
     int_samples |-> IntSamples(SamplesToProcess(data_to_use.samples, doubled)),
     outcome |-> IF chromaprint_ok THEN "ok" ELSE "Chromaprint failed",
     fingerprint |-> IF chromaprint_ok
                     THEN <<[sample_rate |-> CHROMAPRINT_SAMPLE_RATE,
                             duration |-> data_to_use.duration]>>
                     ELSE <<>>]

generate_fingerprint_with_smart_doubling(audio_data, config, chromaprint_ok) ==
    IF audio_data.samples = <<>>
    THEN [op |-> "generate_fingerprint_with_smart_doubling",
          audio_data |-> audio_data, config |-> config,
          outcome |-> "Empty audio data"]
    ELSE SmartDoubling(audio_data, config, DataToUse(audio_data),
                       should_double(DataToUse(audio_data), config), chromaprint_ok)

\* The AudioData AudioLoader::load and the silence trim leave of a file of
\* original_frames frames of which frames are kept: duration and
\* original_duration are the frame counts over the sample rate
AudioOf(samples, sample_rate, original_frames) ==
    [samples |-> samples,
     sample_rate |-> sample_rate,
     channels |-> 1,
     frames |-> Size(samples),
     duration |-> Norm(<<Size(samples), sample_rate>>),
     original_duration |-> Norm(<<original_frames, sample_rate>>)]

\* Frame counts at 11025 Hz: none, 0.6 s, 1.0 s, one frame short of 3.0 s,
\* 3.0 s and 4.0 s; the originals are 2.0 s and 4.0 s or untrimmed
FramesAtTarget == {0, 6615, 11025, 33074, 33075, 44100}

OriginalFramesAtTarget == {22050, 44100}

\* Frame counts at 22050 Hz: one frame, 0.5 s (an odd count), 0.6 s, one frame
\* short of 3.0 s and 3.0 s; the originals are 1.0 s and 2.0 s or untrimmed
FramesAtDouble == {1, 11025, 13230, 66149, 66150}

OriginalFramesAtDouble == {22050, 44100}

\* audio of 0.6 s cut from 2.0 s that starts in silence and ends at full scale
TwoRuns == <<[value |-> Zero, count |-> 615], [value |-> One, count |-> 6000]>>

AudioInputs ==
    {AudioOf(Run(Zero, frames), CHROMAPRINT_SAMPLE_RATE, original_frames) :
        <<frames, original_frames>> \in
            {pair \in FramesAtTarget \X (FramesAtTarget \cup OriginalFramesAtTarget) :
                pair[1] <= pair[2] /\ pair[2] > 0 /\
                (pair[2] = pair[1] \/ pair[2] \in OriginalFramesAtTarget)}}
    \cup {AudioOf(Run(<<1, 2>>, frames), 2 * CHROMAPRINT_SAMPLE_RATE, original_frames) :
        <<frames, original_frames>> \in
            {pair \in FramesAtDouble \X (FramesAtDouble \cup OriginalFramesAtDouble) :
                pair[1] <= pair[2] /\
                (pair[2] = pair[1] \/ pair[2] \in OriginalFramesAtDouble)}}
    \cup {AudioOf(Run(<<2, 1>>, 6615), CHROMAPRINT_SAMPLE_RATE, 22050),
          AudioOf(TwoRuns, CHROMAPRINT_SAMPLE_RATE, 22050)}

\* The PreprocessConfig fields the doubling reads
PreprocessConfigs ==
    [disable_doubling_after_trim : BOOLEAN,
     doubling_threshold_ratio : {<<1, 2>>, <<1, 4>>},
     min_duration_for_doubling : {<<3, 2>>, <<5, 2>>}]

\* const PreprocessConfig* config = nullptr
ConfigArgs == {<<>>} \cup {<<c>> : c \in PreprocessConfigs}

GenerateFingerprintWithSmartDoubling ==
    /\ \E audio_data \in AudioInputs, config \in ConfigArgs, chromaprint_ok \in BOOLEAN :
          call' = generate_fingerprint_with_smart_doubling(audio_data, config, chromaprint_ok)
    /\ UNCHANGED <<mediaVars, parVars, lockVars, files, hash_index, hash_threshold, comparator, accepted>>

NextWrapper == GenerateFingerprintWithSmartDoubling

SpecWrapper == Init /\ [][NextWrapper]_vars

(***************************************************************************)
(* The doubling policy                                                      *)
(***************************************************************************)
\* the last call was generate_fingerprint_with_smart_doubling and it went
\* past the check for empty audio data
SmartDoublingRan ==
    /\ call.op = "generate_fingerprint_with_smart_doubling"
    /\ call.outcome # "Empty audio data"

\* disable_doubling_after_trim is false (no config sets nothing)
DoublingNotDisabled(config) ==
    config = <<>> \/ ~config[1].disable_doubling_after_trim

\* processed_duration / original_duration >= doubling_threshold_ratio
RatioAtLeast(processed_duration, original_duration, config) ==
    /\ config # <<>>
    /\ original_duration[1] > 0
    /\ FracLe(config[1].doubling_threshold_ratio,
              FracDiv(processed_duration, original_duration))

\* original_duration >= min_duration_for_doubling
OriginalLongEnough(original_duration, config) ==
    config # <<>> /\ FracLe(config[1].min_duration_for_doubling, original_duration)

\* the condition under which the samples are to be doubled
DoublingPolicy(processed_duration, original_duration, config) ==
    /\ FracLt(processed_duration, <<3, 1>>)
    /\ \/ DoublingNotDisabled(config)
       \/ RatioAtLeast(processed_duration, original_duration, config)
       \/ OriginalLongEnough(original_duration, config)

\* original 2.0 s, processed 0.6 s, ratio threshold 0.5
TrimmedShort(audio, config) ==
    /\ FracEq(audio.original_duration, <<2, 1>>)
    /\ FracEq(audio.duration, <<6, 10>>)
    /\ config # <<>>
    /\ config[1].disable_doubling_after_trim
    /\ FracEq(config[1].doubling_threshold_ratio, <<1, 2>>)

\* the samples fed are the samples twice over, or the samples
ConcatenatedOnce(c) ==
    /\ c.samples_to_process = c.data_to_use.samples \o c.data_to_use.samples
    /\ Size(c.int_samples) = 2 * Size(c.data_to_use.samples)

NotConcatenated(c) ==
    /\ c.samples_to_process = c.data_to_use.samples
    /\ Size(c.int_samples) = Size(c.data_to_use.samples)

\* C20: generate_fingerprint_with_smart_doubling concatenates the sample
\* sequence with itself, exactly once, if and only if processed_duration < 3.0
\* and (disable_doubling_after_trim is false, or processed_duration /
\* original_duration >= doubling_threshold_ratio, or original_duration >=
\* min_duration_for_doubling), and otherwise leaves it as it is; it never
\* doubles when processed_duration >= 3.0.  Original 2.0 s, processed 0.6 s,
\* ratio threshold 0.5 doubles with min_duration_for_doubling 1.5 and does
\* not double with 2.5.  processed_duration is the duration of the audio the
\* call fingerprints, the one its Fingerprint reports.
C20_SmartDoublingPolicy ==
    SmartDoublingRan =>
        /\ IF DoublingPolicy(call.data_to_use.duration,
                             call.data_to_use.original_duration, call.config)
           THEN call.should_double /\ ConcatenatedOnce(call)
           ELSE ~call.should_double /\ NotConcatenated(call)
        /\ ~FracLt(call.data_to_use.duration, <<3, 1>>) => NotConcatenated(call)
        /\ TrimmedShort(call.data_to_use, call.config) =>
              /\ FracEq(call.config[1].min_duration_for_doubling, <<3, 2>>)
                    => ConcatenatedOnce(call)
              /\ FracEq(call.config[1].min_duration_for_doubling, <<5, 2>>)
                    => NotConcatenated(call)

\* audio of 0.6 s trimmed from 2.0 s was doubled under ratio threshold 0.5
\* and min_duration_for_doubling 1.5, and its fingerprint came back
C20_Witness ==
    /\ SmartDoublingRan
    /\ call.outcome = "ok"
    /\ TrimmedShort(call.data_to_use, call.config)
    /\ FracEq(call.config[1].min_duration_for_doubling, <<3, 2>>)
    /\ call.data_to_use.samples # <<>>
    /\ ConcatenatedOnce(call)

(***************************************************************************)
(* AudioMemoryPool called by MaxHolders callers, each allocation held until *)
(* its caller gives it back.  After a double free nothing more is taken.    *)
(* The pool is called before the loader streams, not after.                 *)
(***************************************************************************)
\* the callers of the pool
MaxHolders == 2

\* the allocations held at one time
MaxHeld == 2

\* the allocations the callers make in one behaviour
MaxAllocations == 3

\* sizes asked for: none, one for each category of block
AllocateArgs == {0, 100, SMALL + 1, MEDIUM + 1}

\* the heap after mi_free of the addresses: freeing an address that is not
\* live is a double free
Freed(h, live, freed) ==
    [live |-> live,
     corrupted |-> h.corrupted \/ \E i \in DOMAIN freed : freed[i] \notin h.live]

\* held after allocate returned ptr to the caller
HeldAfter(holding, caller, ptr, size) ==
    IF ptr = 0 THEN holding
    ELSE [by |-> holding.by \cup {[caller |-> caller, ptr |-> ptr, size |-> size]},
          allocations |-> holding.allocations + 1]

\* the step of allocate once its result is known
AllocateStep(caller, size, result) ==
    /\ pool' = result.pool
    /\ heap' = [heap EXCEPT !.live = result.heap]
    /\ held' = HeldAfter(held, caller, result.ptr, size)

PoolAllocate ==
    /\ ~heap.corrupted
    /\ loader.stream = IdleStream
    /\ Cardinality(held.by) < MaxHeld
    /\ held.allocations < MaxAllocations
    /\ \E caller \in 1..MaxHolders, size \in AllocateArgs, oom \in BOOLEAN :
          AllocateStep(caller, size, allocate(pool, heap.live, size, oom))
    /\ UNCHANGED <<indexVars, parVars, lockVars, loader>>

\* the step of deallocate once its result is known
DeallocateStep(holding, result) ==
    /\ pool' = result.pool
    /\ heap' = Freed(heap, result.heap, result.freed)
    /\ held' = [held EXCEPT !.by = @ \ {holding}]

PoolDeallocate ==
    /\ ~heap.corrupted
    /\ loader.stream = IdleStream
    /\ \E holding \in held.by :
          DeallocateStep(holding, deallocate(pool, heap.live, holding.ptr, holding.size))
    /\ UNCHANGED <<indexVars, parVars, lockVars, loader>>

\* the step of clear once its result is known
ClearStep(result) ==
    /\ pool' = result.pool
    /\ heap' = Freed(heap, result.heap, result.freed)

PoolClear ==
    /\ ~heap.corrupted
    /\ loader.stream = IdleStream
    /\ ClearStep(clear(pool, heap.live))
    /\ UNCHANGED <<indexVars, parVars, lockVars, loader, held>>

PoolSetEnabled ==
    /\ ~heap.corrupted
    /\ loader.stream = IdleStream
    /\ \E enabled \in BOOLEAN : pool' = [pool EXCEPT !.enabled_ = enabled]
    /\ UNCHANGED <<indexVars, parVars, lockVars, loader, heap, held>>

NextPool ==
    \/ PoolAllocate
    \/ PoolDeallocate
    \/ PoolClear
    \/ PoolSetEnabled

SpecPool == Init /\ [][NextPool]_vars

(***************************************************************************)
(* Streaming ingest, one step of processFileStream at a time; the exit of   *)
(* a step that throws is part of the step.                                  *)
(***************************************************************************)
\* the streaming calls of one behaviour
MaxStreams == 1

\* a file as sf_open reports it
AudioFile(frames, channels, samplerate, readable, opens) ==
    [frames |-> frames, channels |-> channels, samplerate |-> samplerate,
     readable |-> readable, opens |-> opens]

\* Files: one that cannot be opened, an empty one, mono and stereo files of
\* several chunks of 4096 bytes, one whose data ends before its header says,
\* and stereo files longer than a chunk of 1 MiB
AudioFiles ==
    {AudioFile(2500, 1, CHROMAPRINT_SAMPLE_RATE, 2500, FALSE),
     AudioFile(0, 1, CHROMAPRINT_SAMPLE_RATE, 0, TRUE),
     AudioFile(2500, 1, CHROMAPRINT_SAMPLE_RATE, 2500, TRUE),
     AudioFile(2500, 1, 2 * CHROMAPRINT_SAMPLE_RATE, 1500, TRUE),
     AudioFile(1200, 2, CHROMAPRINT_SAMPLE_RATE, 1200, TRUE),
     AudioFile(12000, 1, CHROMAPRINT_SAMPLE_RATE, 12000, TRUE),
     AudioFile(150000, 2, 2 * CHROMAPRINT_SAMPLE_RATE, 150000, TRUE)}

\* arguments of setChunkSize(size_t)
ChunkSizeArgs == {0, 3000, CHUNK_ALIGNMENT, 5000, MAX_CHUNK_SIZE + 1}

\* arguments of generateStreamingFingerprintLimited
MaxDurationArgs == {0, 1}

\* fp_size of chromaprint_get_raw_fingerprint
FingerprintSizes == {0, 3}

\* the loader is in no streaming call
NotStreaming == loader.stream.pc \in {"idle", "returned", "thrown"}

SetChunkSize ==
    /\ loader.stream = IdleStream
    /\ \E chunk_size \in ChunkSizeArgs : loader' = [loader EXCEPT !.chunk_size_ = chunk_size]
    /\ UNCHANGED <<indexVars, parVars, lockVars, pool, heap, held>>

\* last_stats_ = {} and the call entered
Entered(entry, file, max_duration_seconds) ==
    [loader EXCEPT !.last_stats_ = [total_bytes_processed |-> 0, peak_memory_usage |-> 0],
                   !.started = @ + 1,
                   !.stream = NewStream(entry, file, max_duration_seconds,
                                        CurrentUsage(pool))]

GenerateStreamingFingerprint ==
    /\ NotStreaming
    /\ ~heap.corrupted
    /\ loader.started < MaxStreams
    /\ \E file \in AudioFiles :
          loader' = Entered("generateStreamingFingerprint", file, -1)
    /\ UNCHANGED <<indexVars, parVars, lockVars, pool, heap, held>>

\* generateStreamingFingerprintLimited throws before processFileStream when
\* max_duration_seconds <= 0
GenerateStreamingFingerprintLimited ==
    /\ NotStreaming
    /\ ~heap.corrupted
    /\ loader.started < MaxStreams
    /\ \E file \in AudioFiles, max_duration_seconds \in MaxDurationArgs :
          loader' =
              IF max_duration_seconds <= 0
              THEN [loader EXCEPT
                       !.started = @ + 1,
                       !.stream = Thrown(NewStream("generateStreamingFingerprintLimited",
                                                   file, max_duration_seconds,
                                                   CurrentUsage(pool)),
                                         "Max duration must be positive")]
              ELSE Entered("generateStreamingFingerprintLimited", file, max_duration_seconds)
    /\ UNCHANGED <<indexVars, parVars, lockVars, pool, heap, held>>

SfOpen ==
    /\ loader.stream.pc = "sf_open"
    /\ loader' = [loader EXCEPT !.stream = Opened(@)]
    /\ UNCHANGED <<indexVars, parVars, lockVars, pool, heap, held>>

ChromaprintNew ==
    /\ loader.stream.pc = "chromaprint_new"
    /\ \E ok \in BOOLEAN : loader' = [loader EXCEPT !.stream = Created(@, ok)]
    /\ UNCHANGED <<indexVars, parVars, lockVars, pool, heap, held>>

ChromaprintStart ==
    /\ loader.stream.pc = "chromaprint_start"
    /\ \E ok \in BOOLEAN : loader' = [loader EXCEPT !.stream = Started(@, ok)]
    /\ UNCHANGED <<indexVars, parVars, lockVars, pool, heap, held>>

\* AudioBuffer audio_buffer(chunk_size_): std::bad_alloc when allocate
\* returns nullptr
BufferStep(result) ==
    /\ pool' = result.pool
    /\ heap' = [heap EXCEPT !.live = result.heap]
    /\ loader' = [loader EXCEPT !.stream =
                     IF result.ptr = 0 THEN Caught(@, "std::bad_alloc")
                     ELSE Buffered(@, result.ptr, loader.chunk_size_)]

AllocateBuffer ==
    /\ loader.stream.pc = "allocate"
    /\ \E oom \in BOOLEAN : BufferStep(allocate(pool, heap.live, loader.chunk_size_, oom))
    /\ UNCHANGED <<indexVars, parVars, lockVars, held>>

\* ~AudioBuffer: the pool and the heap after the buffer is given back
BufferReleased ==
    /\ pool' = deallocate(pool, heap.live, loader.stream.buffer, loader.chunk_size_).pool
    /\ heap' = Freed(heap,
                     deallocate(pool, heap.live, loader.stream.buffer, loader.chunk_size_).heap,
                     deallocate(pool, heap.live, loader.stream.buffer, loader.chunk_size_).freed)

\* the read reaches past the allocation of the buffer
ReadsPastBuffer(s, frames_read) ==
    Chunk(s, frames_read).highest_read
        >= BufferFloats(pool, s.buffer, loader.chunk_size_)

\* One iteration of the loop.  A read past the allocation is undefined: the
\* process ends there or goes on with whatever it read
ReadIteration(frames_read) ==
    IF frames_read <= 0
    THEN /\ loader' = [loader EXCEPT !.stream.pc = "finish"]
         /\ UNCHANGED <<pool, heap>>
    ELSE \/ /\ ReadsPastBuffer(loader.stream, frames_read)
            /\ loader' = [loader EXCEPT !.stream =
                             [ChunkRead(@, frames_read) EXCEPT !.pc = "crashed"]]
            /\ UNCHANGED <<pool, heap>>
         \/ /\ loader' = [loader EXCEPT
                             !.stream = ChunkFed(ChunkRead(@, frames_read), frames_read),
                             !.last_stats_ = StatsAfterChunk(@, loader.stream, frames_read)]
            /\ UNCHANGED <<pool, heap>>
         \/ /\ loader' = [loader EXCEPT !.stream =
                             Caught(ChunkRead(@, frames_read),
                                    "Failed to feed audio data to Chromaprint")]
            /\ BufferReleased

ReadChunk ==
    /\ loader.stream.pc = "read"
    /\ ReadIteration(sf_read_float(loader.stream,
                                   FramesToRead(loader.stream) * loader.stream.file.channels))
    /\ UNCHANGED <<indexVars, parVars, lockVars, held>>

ChromaprintFinish ==
    /\ loader.stream.pc = "finish"
    /\ \/ /\ loader' = [loader EXCEPT !.stream.pc = "get_raw"]
          /\ UNCHANGED <<pool, heap>>
       \/ /\ loader' = [loader EXCEPT !.stream =
                           Caught(@, "Failed to finish Chromaprint processing")]
          /\ BufferReleased
    /\ UNCHANGED <<indexVars, parVars, lockVars, held>>

GetRawAndCompress ==
    /\ loader.stream.pc = "get_raw"
    /\ \E got \in BOOLEAN, fp_size \in FingerprintSizes, lz4_ok \in BOOLEAN :
          loader' = [loader EXCEPT !.stream = Compressed(@, got, fp_size, lz4_ok)]
    /\ BufferReleased
    /\ UNCHANGED <<indexVars, parVars, lockVars, held>>

NextStream ==
    \/ SetChunkSize
    \/ PoolSetEnabled
    \/ PoolClear
    \/ GenerateStreamingFingerprint
    \/ GenerateStreamingFingerprintLimited
    \/ SfOpen
    \/ ChromaprintNew
    \/ ChromaprintStart
    \/ AllocateBuffer
    \/ ReadChunk
    \/ ChromaprintFinish
    \/ GetRawAndCompress

SpecStream == Init /\ [][NextStream]_vars

(***************************************************************************)
(* Streaming ingest: what its exits leave, what it reads, its chunk size    *)
(***************************************************************************)
\* the streaming call has left processFileStream or its entry point, by
\* return or by an exception
StreamLeft == loader.stream.pc \in {"returned", "thrown"}

\* sf_close was called once if the file was opened and not at all otherwise
ClosedOnceIfOpened(s) == s.closes = IF s.opened THEN 1 ELSE 0

\* chromaprint_free was called once if the context was created
FreedOnceIfCreated(s) == s.frees = IF s.created THEN 1 ELSE 0

\* C21: on every exit path of streaming ingest (success; failure to open the
\* file; failure to create or start the fingerprinter; buffer allocation
\* failure; failure of feed, finish or get-raw; failure of compression) the
\* decoder file is closed exactly once if it was opened, the fingerprinter
\* context is freed exactly once if it was created, and the PCM chunk buffer
\* is back in the pool: the pool's current usage after the call equals its
\* value before the call.
C21_ExitsReleaseEverything ==
    StreamLeft =>
        /\ ClosedOnceIfOpened(loader.stream)
        /\ FreedOnceIfCreated(loader.stream)
        /\ loader.stream.buffer = 0
        /\ CurrentUsage(pool) = loader.stream.usage_before
        /\ \A category \in {"SMALL", "MEDIUM", "LARGE"} :
              \A k \in DOMAIN BlocksOf(pool, category) :
                  ~BlocksOf(pool, category)[k].in_use
        /\ ~heap.corrupted

\* chromaprint_feed failed on a later chunk of an opened file, with the
\* buffer taken from the pool, and the call left with everything released
C21_Witness ==
    /\ StreamLeft
    /\ loader.stream.outcome = "Failed to feed audio data to Chromaprint"
    /\ Len(loader.stream.chunks) >= 2
    /\ pool.total_allocated_ = loader.chunk_size_
    /\ pool.total_deallocated_ = loader.chunk_size_
    /\ loader.stream.closes = 1
    /\ loader.stream.frees = 1

\* the frames a chunk took from the file
FramesOfChunk(s, chunk) == chunk.frames_read \div s.file.channels

\* one mono sample for every frame of the chunk, read from positions the
\* read of the chunk filled
ChunkWellRead(s, chunk) ==
    /\ chunk.mono_samples = FramesOfChunk(s, chunk)
    /\ chunk.highest_read < chunk.filled

\* C22: for a file with F frames, C >= 1 channels and sample rate R,
\* streaming ingest with an optional duration cap D consumes at most
\* min(F, D*R) frames in total, produces exactly one mono sample per frame
\* read in each chunk (reading only buffer positions filled by that chunk's
\* read), and reports duration = (frames actually read and fed) / R, for
\* every channel count and every chunk size.
C22_OneSamplePerFrame ==
    loader.stream.pc \notin {"idle", "sf_open"} =>
        /\ loader.stream.position
              <= MaxFramesToProcess(loader.stream.file, loader.stream.max_duration_seconds)
                     * loader.stream.file.channels
        /\ \A k \in DOMAIN loader.stream.chunks :
              ChunkWellRead(loader.stream, loader.stream.chunks[k])
        /\ loader.stream.pc = "returned" =>
              FracEq(loader.stream.duration,
                     <<loader.stream.position \div loader.stream.file.channels,
                       loader.stream.file.samplerate>>)

\* C23: after any sequence of StreamingAudioLoader construction and
\* setChunkSize calls, the chunk size used by the next streaming ingest is at
\* least 4096 bytes, at most 16 MiB, and a multiple of 4096.
C23_ChunkSizeValid ==
    /\ loader.chunk_size_ >= 4096
    /\ loader.chunk_size_ <= 16 * 1024 * 1024
    /\ loader.chunk_size_ % 4096 = 0



(***************************************************************************)
(* AudioPreprocessor.  Samples are runs of equal samples as above; a level  *)
(* in dB is a whole multiple of 20, so that its linear value 10^(dB/20) is  *)
(* an exact fraction.  A stage returns <<data>>, or <<>> when it throws.    *)
(***************************************************************************)
FracMul(a, b) == Norm(<<a[1] * b[1], a[2] * b[2]>>)

FracAbs(a) == <<Abs(a[1]), a[2]>>

\* the runs with no empty run and no two neighbours of one value
RECURSIVE Merged(_)
Merged(samples) ==
    IF samples = <<>> THEN <<>>
    ELSE IF samples[1].count = 0 THEN Merged(Tail(samples))
    ELSE IF Len(samples) >= 2 /\ samples[2].count = 0
    THEN Merged(<<samples[1]>> \o SubSeq(samples, 3, Len(samples)))
    ELSE IF Len(samples) >= 2 /\ samples[2].value = samples[1].value
    THEN Merged(<<[value |-> samples[1].value,
                   count |-> samples[1].count + samples[2].count]>>
                \o SubSeq(samples, 3, Len(samples)))
    ELSE <<samples[1]>> \o Merged(Tail(samples))

\* how many of the positions first .. last - 1 lie in start .. end - 1
Shared(first, last, start, end) == Max(0, Min(last, end) - Max(first, start))

\* the samples start .. end - 1 of a vector whose first run begins at offset
RECURSIVE Slice(_, _, _, _)
Slice(samples, offset, start, end) ==
    IF samples = <<>> THEN <<>>
    ELSE Run(samples[1].value,
             Shared(offset, offset + samples[1].count, start, end))
         \o Slice(Tail(samples), offset + samples[1].count, start, end)

\* sum += samples[i] * samples[i] for i in start .. end - 1
RECURSIVE SumSquares(_, _, _, _)
SumSquares(samples, offset, start, end) ==
    IF samples = <<>> THEN Zero
    ELSE FracAdd(Norm(<<samples[1].value[1] * samples[1].value[1]
                            * Shared(offset, offset + samples[1].count, start, end),
                        samples[1].value[2] * samples[1].value[2]>>),
                 SumSquares(Tail(samples), offset + samples[1].count, start, end))

\* sum / (end - start)
MeanSquare(samples, start, end) ==
    Norm(<<SumSquares(samples, 0, start, end)[1],
           SumSquares(samples, 0, start, end)[2] * (end - start)>>)

\* AudioPreprocessor::calculate_energy
calculate_energy(samples, start, count) ==
    IF start < 0 \/ start >= Size(samples) \/ count <= 0 THEN Zero
    ELSE MeanSquare(samples, start, Min(start + count, Size(samples)))

\* AudioPreprocessor::db_to_linear: std::pow(10.0f, db / 20.0f)
db_to_linear(db) ==
    IF db >= 0 THEN <<10 ^ (db \div 20), 1>> ELSE <<1, 10 ^ ((-db) \div 20)>>

\* linear_to_db(linear) < db, with linear_to_db -100 for linear <= 0 and
\* 20 * log10(linear) otherwise
BelowDb(linear, db) ==
    IF FracLe(linear, Zero) THEN -100 < db ELSE FracLt(linear, db_to_linear(db))

\* AudioPreprocessor::detect_silence_segment
detect_silence_segment(samples, start_sample, sample_count, threshold_db) ==
    IF start_sample < 0 \/ start_sample >= Size(samples) THEN TRUE
    ELSE BelowDb(calculate_energy(samples, start_sample,
                                  Min(start_sample + sample_count, Size(samples))
                                      - start_sample),
                 threshold_db)

\* int chunk_size = std::max(1, sample_rate / 100)
ChunkSizeOf(sample_rate) == Max(1, sample_rate \div 100)

\* the chunk of chunk_size samples at i, cut at the end of the vector, is not silent
NonSilentAt(samples, i, chunk_size, threshold_db) ==
    ~detect_silence_segment(samples, i, Min(chunk_size, Size(samples) - i), threshold_db)

\* the values of i of the loop for (i = 0; i < size; i += chunk_size)
ForwardStarts(size, chunk_size) ==
    {chunk_size * k : k \in 0..((size - 1) \div chunk_size)}

\* the values of i of the loop for (i = size - chunk_size; i >= 0; i -= chunk_size)
BackwardStarts(size, chunk_size) ==
    {size - chunk_size * k : k \in 1..(size \div chunk_size)}

Lowest(numbers) == CHOOSE n \in numbers : \A m \in numbers : n <= m

Highest(numbers) == CHOOSE n \in numbers : \A m \in numbers : n >= m

\* AudioPreprocessor::find_first_non_silent_sample
FirstFound(samples, chunk_size, threshold_db) ==
    {i \in ForwardStarts(Size(samples), chunk_size) :
        NonSilentAt(samples, i, chunk_size, threshold_db)}

find_first_non_silent_sample(samples, sample_rate, config) ==
    IF samples = <<>> THEN -1
    ELSE IF FirstFound(samples, ChunkSizeOf(sample_rate), config.silence_threshold_db) = {}
    THEN -1
    ELSE Lowest(FirstFound(samples, ChunkSizeOf(sample_rate), config.silence_threshold_db))

\* AudioPreprocessor::find_last_non_silent_sample: i + count - 1 of the
\* first chunk of the loop that is not silent
LastFound(samples, chunk_size, threshold_db) ==
    {i \in BackwardStarts(Size(samples), chunk_size) :
        NonSilentAt(samples, i, chunk_size, threshold_db)}

find_last_non_silent_sample(samples, sample_rate, config) ==
    IF samples = <<>> THEN -1
    ELSE IF LastFound(samples, ChunkSizeOf(sample_rate), config.silence_threshold_db) = {}
    THEN -1
    ELSE Highest(LastFound(samples, ChunkSizeOf(sample_rate), config.silence_threshold_db))
         + Min(ChunkSizeOf(sample_rate),
               Size(samples)
                   - Highest(LastFound(samples, ChunkSizeOf(sample_rate),
                                       config.silence_threshold_db)))
         - 1

\* int padding_samples = (config_.preserve_padding_ms * input.sample_rate) / 1000
PaddingSamples(input, config) == (config.preserve_padding_ms * input.sample_rate) \div 1000

\* the AudioData trim_silence builds around the samples it keeps
TrimResult(input, samples) ==
    [samples |-> samples,
     sample_rate |-> input.sample_rate,
     channels |-> input.channels,
     frames |-> Size(samples),
     duration |-> Norm(<<Size(samples), input.sample_rate>>),
     original_duration |-> input.original_duration]

\* trim_silence once the boundaries are found: the all-silent branch, or
\* the slice start_sample .. end_sample; a negative trimmed_length makes
\* samples.resize throw std::length_error
Trimmed(input, first_non_silent, last_non_silent, padding_samples) ==
    IF first_non_silent = -1 \/ last_non_silent = -1
    THEN <<TrimResult(input, Run(Zero, Min(padding_samples, Size(input.samples))))>>
    ELSE IF Min(Size(input.samples) - 1, last_non_silent + padding_samples)
                - Max(0, first_non_silent - padding_samples) + 1 < 0
    THEN <<>>
    ELSE <<TrimResult(input,
                      Merged(Slice(input.samples, 0,
                                   Max(0, first_non_silent - padding_samples),
                                   Min(Size(input.samples) - 1,
                                       last_non_silent + padding_samples) + 1)))>>

\* AudioPreprocessor::trim_silence
trim_silence(input, config) ==
    IF input.samples = <<>> THEN <<input>>
    ELSE Trimmed(input,
                 find_first_non_silent_sample(input.samples, input.sample_rate, config),
                 find_last_non_silent_sample(input.samples, input.sample_rate, config),
                 PaddingSamples(input, config))

\* the least whole number not below a / b
CeilDiv(a, b) == (a + b - 1) \div b

\* how many of the output_size outputs i have their source index i / ratio
\* below index + 1; the index is taken exactly, a double i / ratio that falls
\* short of a whole number moves the sample by less than a float keeps
OutputsUpTo(index, input_rate, output_rate, output_size) ==
    Min(output_size, CeilDiv((index + 1) * output_rate, input_rate))

\* output[i] = input[floor] * (1.0 - fraction) + input[floor + 1] * fraction
\* with fraction the part of i / ratio after the point
Interpolated(this, next, i, input_rate, output_rate) ==
    FracAdd(FracMul(this, <<output_rate - ((i * input_rate) % output_rate), output_rate>>),
            FracMul(next, <<(i * input_rate) % output_rate, output_rate>>))

\* the outputs from .. to - 1, each between the last sample of a run and the
\* first of the run after it
RECURSIVE Between(_, _, _, _, _, _)
Between(this, next, from, to, input_rate, output_rate) ==
    IF from >= to THEN <<>>
    ELSE Run(Interpolated(this, next, from, input_rate, output_rate), 1)
         \o Between(this, next, from + 1, to, input_rate, output_rate)

\* The outputs of the runs k .. of the input, the run k beginning at offset:
\* those whose two source samples lie in the run, then those that leave it;
\* from the last sample of the input on the output is input.back()
RECURSIVE ResampledFrom(_, _, _, _, _, _)
ResampledFrom(input, k, offset, input_rate, output_rate, output_size) ==
    IF k = Len(input)
    THEN Run(input[k].value,
             output_size - OutputsUpTo(offset - 1, input_rate, output_rate, output_size))
    ELSE Run(input[k].value,
             OutputsUpTo(offset + input[k].count - 2, input_rate, output_rate, output_size)
                 - OutputsUpTo(offset - 1, input_rate, output_rate, output_size))
         \o Between(input[k].value, input[k + 1].value,
                    OutputsUpTo(offset + input[k].count - 2, input_rate, output_rate,
                                output_size),
                    OutputsUpTo(offset + input[k].count - 1, input_rate, output_rate,
                                output_size),
                    input_rate, output_rate)
         \o ResampledFrom(input, k + 1, offset + input[k].count,
                          input_rate, output_rate, output_size)

\* AudioPreprocessor::resample_sinc (linear interpolation)
resample_sinc(input, input_rate, output_rate) ==
    IF input = <<>> \/ input_rate = output_rate THEN input
    ELSE Merged(ResampledFrom(input, 1, 0, input_rate, output_rate,
                              OutputSize(Size(input), input_rate, output_rate)))

\* AudioPreprocessor::normalize_sample_rate
normalize_sample_rate(input, config) ==
    IF input.sample_rate = config.target_sample_rate THEN input
    ELSE Resampled(input,
                   resample_sinc(input.samples, input.sample_rate,
                                 config.target_sample_rate),
                   config.target_sample_rate)

\* AudioPreprocessor::calculate_peak over the whole vector
RECURSIVE calculate_peak(_)
calculate_peak(samples) ==
    IF samples = <<>> THEN Zero
    ELSE IF FracLt(calculate_peak(Tail(samples)), FracAbs(samples[1].value))
    THEN FracAbs(samples[1].value)
    ELSE calculate_peak(Tail(samples))

\* std::sqrt of a fraction whose terms are squares
SquareRoot(a) ==
    <<CHOOSE n \in 0..a[1] : n * n = a[1], CHOOSE d \in 1..a[2] : d * d = a[2]>>

\* AudioPreprocessor::calculate_rms over the whole vector
calculate_rms(samples) ==
    IF samples = <<>> THEN Zero
    ELSE SquareRoot(MeanSquare(samples, 0, Size(samples)))

CurrentLevel(samples, config) ==
    IF config.use_rms_normalization THEN calculate_rms(samples) ELSE calculate_peak(samples)

TargetLevel(config) ==
    IF config.use_rms_normalization THEN db_to_linear(config.target_rms_db)
    ELSE db_to_linear(config.target_peak_db)

\* std::clamp(value, low, high)
FracClamp(value, low, high) ==
    IF FracLt(value, low) THEN low ELSE IF FracLt(high, value) THEN high ELSE value

\* gain: the minimal gain below the noise floor, else target / current
\* limited to 0.1 .. 10
Gain(current_level, target_level, config) ==
    IF FracLt(current_level, db_to_linear(config.noise_floor_db))
    THEN db_to_linear(-20)
    ELSE FracClamp(FracDiv(target_level, current_level), <<1, 10>>, <<10, 1>>)

\* sample *= gain; sample = std::clamp(sample, -1.0f, 1.0f)
RECURSIVE Amplified(_, _)
Amplified(samples, gain) ==
    IF samples = <<>> THEN <<>>
    ELSE <<[value |-> FracClamp(FracMul(samples[1].value, gain), <<-1, 1>>, One),
            count |-> samples[1].count]>>
         \o Amplified(Tail(samples), gain)

\* AudioPreprocessor::normalize_volume
normalize_volume(input, config) ==
    IF input.samples = <<>> THEN input
    ELSE [input EXCEPT !.samples =
              Merged(Amplified(input.samples,
                               Gain(CurrentLevel(input.samples, config),
                                    TargetLevel(config), config)))]

\* The stages of process.  throwing holds the stages that throw when they
\* run (std::bad_alloc from a vector or a make_unique of the stage).
Step1(input, config, throwing) ==
    IF ~config.trim_silence THEN <<input>>
    ELSE IF "trim_silence" \in throwing THEN <<>>
    ELSE trim_silence(input, config)

Step2(processed_, config, throwing) ==
    IF processed_ = <<>> THEN <<>>
    ELSE IF ~(config.normalize_sample_rate
              /\ processed_[1].sample_rate # config.target_sample_rate)
    THEN processed_
    ELSE IF "normalize_sample_rate" \in throwing THEN <<>>
    ELSE <<normalize_sample_rate(processed_[1], config)>>

Step3(processed_, config, throwing) ==
    IF processed_ = <<>> THEN <<>>
    ELSE IF ~config.normalize_volume THEN processed_
    ELSE IF "normalize_volume" \in throwing THEN <<>>
    ELSE <<normalize_volume(processed_[1], config)>>

\* what the try block of process returns, <<>> when a stage threw
Tried(input, config, throwing) ==
    Step3(Step2(Step1(input, config, throwing), config, throwing), config, throwing)

\* AudioPreprocessor::process: the result of the try block, or from the
\* catch handler std::make_unique<AudioData>(input)
Returned_or_input(input, tried) ==
    IF tried = <<>> THEN input ELSE tried[1]

process(input, config, throwing) ==
    Returned_or_input(input, Tried(input, config, throwing))

(***************************************************************************)
(* The preprocessor and the resampling of the loader, one call at a time.   *)
(***************************************************************************)
\* a PreprocessConfig with the fields the stages read
StageConfig(trim, padding_ms, rate, target, volume, rms) ==
    [trim_silence |-> trim,
     silence_threshold_db |-> -40,
     preserve_padding_ms |-> padding_ms,
     normalize_sample_rate |-> rate,
     target_sample_rate |-> target,
     normalize_volume |-> volume,
     target_peak_db |-> 0,
     use_rms_normalization |-> rms,
     target_rms_db |-> -20,
     noise_floor_db |-> -60]

\* a sample of 1/8: alone it is above -40 dB, next to a 0 the two are below
Eighth == <<1, 8>>

\* Signals at 200 Hz, where a chunk of 10 ms is 2 samples: empty, silent,
\* loud in the middle, loud first sample only of an odd count, two quiet
\* samples across the chunks, one sample, half scale, and a loud last sample
Signals200 ==
    {<<>>,
     Run(Zero, 5),
     <<[value |-> Zero, count |-> 2], [value |-> One, count |-> 2],
       [value |-> Zero, count |-> 2]>>,
     <<[value |-> One, count |-> 1], [value |-> Zero, count |-> 2]>>,
     <<[value |-> Zero, count |-> 1], [value |-> Eighth, count |-> 2],
       [value |-> Zero, count |-> 1], [value |-> Eighth, count |-> 1]>>,
     Run(One, 1),
     Run(<<1, 2>>, 8),
     <<[value |-> Zero, count |-> 3], [value |-> One, count |-> 1]>>}

\* Signals at 400 Hz, where a chunk is 4 samples: shorter than a chunk, and
\* three chunks with the loud one in the middle
Signals400 ==
    {Run(One, 3),
     <<[value |-> Zero, count |-> 4], [value |-> One, count |-> 4],
       [value |-> Zero, count |-> 4]>>}

StageInputs ==
    {AudioOf(samples, 200, Size(samples)) : samples \in Signals200}
    \cup {AudioOf(samples, 400, Size(samples)) : samples \in Signals400}

StageConfigs ==
    {StageConfig(trim, padding_ms, rate, target, volume, FALSE) :
        trim \in BOOLEAN, padding_ms \in {0, 10}, rate \in BOOLEAN,
        target \in {200, 400}, volume \in BOOLEAN}

Stages == {"trim_silence", "normalize_sample_rate", "normalize_volume"}

\* The preprocessor keeps nothing from one call to the next but its config,
\* which every call here brings along: a behaviour is one call, and after a
\* resampling the one that resamples back
FirstCall == call.op = "new"

PreprocessorProcess ==
    /\ FirstCall
    /\ \E input \in StageInputs, config \in StageConfigs, throwing \in SUBSET Stages :
          call' = [op |-> "process", arg |-> input, config |-> config,
                   throwing |-> throwing,
                   caught |-> Tried(input, config, throwing) = <<>>,
                   result |-> process(input, config, throwing)]
    /\ UNCHANGED <<mediaVars, parVars, lockVars, files, hash_index, hash_threshold, comparator, accepted>>

\* what a call of trim_silence leaves in call, the boundaries it found included
TrimSilenceOf(input, config) ==
    [op |-> "trim_silence", arg |-> input, config |-> config,
     first_non_silent |->
         find_first_non_silent_sample(input.samples, input.sample_rate, config),
     last_non_silent |->
         find_last_non_silent_sample(input.samples, input.sample_rate, config),
     result |-> trim_silence(input, config)]

TrimSilence ==
    /\ FirstCall
    /\ \E input \in StageInputs, padding_ms \in {0, 5, 10} :
          call' = TrimSilenceOf(input,
                      StageConfig(TRUE, padding_ms, FALSE, 200, FALSE, FALSE))
    /\ UNCHANGED <<mediaVars, parVars, lockVars, files, hash_index, hash_threshold, comparator, accepted>>

\* signals whose mean square has a root that is a fraction
VolumeInputs ==
    {AudioOf(samples, 200, Size(samples)) :
        samples \in {<<>>, Run(Zero, 5), Run(One, 1), Run(<<1, 2>>, 8),
                     <<[value |-> Zero, count |-> 3], [value |-> One, count |-> 1]>>,
                     <<[value |-> <<-1, 2>>, count |-> 2], [value |-> <<1, 2>>, count |-> 1]>>}}

NormalizeVolume ==
    /\ FirstCall
    /\ \E input \in VolumeInputs, rms \in BOOLEAN :
          call' = [op |-> "normalize_volume", arg |-> input,
                   config |-> StageConfig(FALSE, 0, FALSE, 200, TRUE, rms),
                   result |-> normalize_volume(input,
                                  StageConfig(FALSE, 0, FALSE, 200, TRUE, rms))]
    /\ UNCHANGED <<mediaVars, parVars, lockVars, files, hash_index, hash_threshold, comparator, accepted>>

\* Lengths and pairs of rates of the resampling: two small rates whose
\* quotient no double holds, and three rates of audio files
ResampleLengths == {0, 1, 7, 27, 160, 441}

ResampleRates ==
    ({3, 13} \X {3, 13}) \cup ({11025, 44100, 48000} \X {11025, 44100, 48000})

ResampleInputs ==
    {<<AudioOf(Run(<<1, 2>>, length), rates[1], length), rates[2]>> :
        length \in ResampleLengths, rates \in ResampleRates}

\* what a resampling call leaves in call: origin is <<>>, or <<first>> with
\* the AudioData the call before started from when this call resamples the
\* result of that call to the rate it had
ResampleCall(op, input, target, result, origin) ==
    [op |-> op, arg |-> input, target |-> target, result |-> result, origin |-> origin]

NormalizeSampleRateOf(input, target, origin) ==
    ResampleCall("normalize_sample_rate", input, target,
                 normalize_sample_rate(input,
                     StageConfig(FALSE, 0, TRUE, target, FALSE, FALSE)),
                 origin)

ResampleOf(input, target, origin) ==
    ResampleCall("resample", input, target, resample(input, target), origin)

NormalizeSampleRate ==
    /\ FirstCall
    /\ \E pair \in ResampleInputs : call' = NormalizeSampleRateOf(pair[1], pair[2], <<>>)
    /\ UNCHANGED <<mediaVars, parVars, lockVars, files, hash_index, hash_threshold, comparator, accepted>>

LoaderResample ==
    /\ FirstCall
    /\ \E pair \in ResampleInputs : call' = ResampleOf(pair[1], pair[2], <<>>)
    /\ UNCHANGED <<mediaVars, parVars, lockVars, files, hash_index, hash_threshold, comparator, accepted>>

\* the result of a resampling resampled to the rate of its input
ResampleBack ==
    /\ call.op \in {"normalize_sample_rate", "resample"}
    /\ call.origin = <<>>
    /\ call' = IF call.op = "resample"
               THEN ResampleOf(call.result, call.arg.sample_rate, <<call.arg>>)
               ELSE NormalizeSampleRateOf(call.result, call.arg.sample_rate, <<call.arg>>)
    /\ UNCHANGED <<mediaVars, parVars, lockVars, files, hash_index, hash_threshold, comparator, accepted>>

NextPre ==
    \/ PreprocessorProcess
    \/ TrimSilence
    \/ NormalizeVolume
    \/ NormalizeSampleRate
    \/ LoaderResample
    \/ ResampleBack

SpecPre == Init /\ [][NextPre]_vars

(***************************************************************************)
(* Properties of the preprocessor and of the resampling.                    *)
(***************************************************************************)
\* the output of the stages up to the first one that throws
SucceededBefore(input, first, second, third) ==
    IF first = <<>> THEN input
    ELSE IF second = <<>> THEN first[1]
    ELSE IF third = <<>> THEN second[1]
    ELSE third[1]

KeptUntilFailure(input, config, throwing) ==
    SucceededBefore(input,
                    Step1(input, config, throwing),
                    Step2(Step1(input, config, throwing), config, throwing),
                    Step3(Step2(Step1(input, config, throwing), config, throwing),
                          config, throwing))

\* a stage that throws leaves what it was given
Skipped(given, stage) == IF stage = <<>> THEN given ELSE stage

\* the output of every stage that succeeds, the stages after a failing one
\* run on what the stages before it left
KeptSkippingFailure(input, config, throwing) ==
    Skipped(Skipped(Skipped(<<input>>, Step1(input, config, throwing)),
                    Step2(Skipped(<<input>>, Step1(input, config, throwing)),
                          config, throwing)),
            Step3(Skipped(Skipped(<<input>>, Step1(input, config, throwing)),
                          Step2(Skipped(<<input>>, Step1(input, config, throwing)),
                                config, throwing)),
                  config, throwing))[1]

\* C24: process returns, and when a stage fails the result is the output of
\* the stages that succeeded before it, with the failing stage skipped
\* (whether or not the stages after it then run); the unmodified copy of
\* the input comes back only when no stage succeeded.
C24_FailedStageSkipped ==
    call.op = "process" =>
        call.result \in {KeptUntilFailure(call.arg, call.config, call.throwing),
                         KeptSkippingFailure(call.arg, call.config, call.throwing)}

\* floor(N * r2 / r1)
FloorLength(length, input_rate, output_rate) == (length * output_rate) \div input_rate

\* C25: resampling N samples from r1 to r2 yields floor(N * r2 / r1)
\* samples, and resampling the result back to r1 yields a length within 1
\* of N.
C25_ResampleLengths ==
    call.op \in {"normalize_sample_rate", "resample"} =>
        /\ Size(call.result.samples)
               = FloorLength(Size(call.arg.samples), call.arg.sample_rate, call.target)
        /\ call.origin # <<>> =>
               Abs(Size(call.result.samples) - Size(call.origin[1].samples)) <= 1

\* the chunks of 10 ms of the input, from its first sample on, that are not silent
NonSilentChunks(input, config) ==
    FirstFound(input.samples, ChunkSizeOf(input.sample_rate), config.silence_threshold_db)

\* input[max(0, first - pad) .. min(N - 1, last + pad)]
PaddedSlice(input, first, last, pad) ==
    Merged(Slice(input.samples, 0, Max(0, first - pad),
                 Min(Size(input.samples) - 1, last + pad) + 1))

\* every sample of every chunk that is not silent lies in first - pad .. last + pad
ChunksWithin(input, config, first, last, pad) ==
    \A i \in NonSilentChunks(input, config) :
        /\ first - pad <= i
        /\ Min(i + ChunkSizeOf(input.sample_rate), Size(input.samples)) - 1 <= last + pad

\* C27: trim_silence on a non-empty input of which a chunk of 10 ms is not
\* silent finds both boundaries, first <= last, and returns the non-empty
\* slice input[max(0, first - pad) .. min(N - 1, last + pad)], which holds
\* every sample of every chunk that is not silent; the zeros of the padding
\* come back only when every chunk is silent, whatever N is.
C27_TrimKeepsNonSilent ==
    (call.op = "trim_silence" /\ call.arg.samples # <<>>
        /\ NonSilentChunks(call.arg, call.config) # {}) =>
        /\ call.first_non_silent # -1
        /\ call.last_non_silent # -1
        /\ call.first_non_silent <= call.last_non_silent
        /\ call.result # <<>>
        /\ call.result[1].samples # <<>>
        /\ call.result[1].samples
               = PaddedSlice(call.arg, call.first_non_silent, call.last_non_silent,
                             PaddingSamples(call.arg, call.config))
        /\ ChunksWithin(call.arg, call.config, call.first_non_silent,
                        call.last_non_silent, PaddingSamples(call.arg, call.config))

(***************************************************************************)
(* Properties of the fine-tuning of the alignment (specification SpecCmp).  *)
(***************************************************************************)
\* the offsets k0 - 2 .. k0 + 2 within the max-offset bound
FineCandidates(c, coarse_offset) ==
    {k \in (coarse_offset - 2)..(coarse_offset + 2) : Abs(k) <= c.max_alignment_offset}

\* best_offset is within 2 of the coarse offset and within the bound, and no
\* candidate has a higher similarity
BestNearCoarse(c, fp1, fp2, coarse_offset, best_offset) ==
    /\ Abs(best_offset - coarse_offset) <= 2
    /\ Abs(best_offset) <= c.max_alignment_offset
    /\ \A k \in FineCandidates(c, coarse_offset) :
           FracLe(calculate_similarity_at_offset(fp1, fp2, k),
                  calculate_similarity_at_offset(fp1, fp2, best_offset))

\* compare got as far as find_best_alignment
Aligned(c, fp1, fp2) ==
    /\ Len(fp1) >= c.minimum_overlap
    /\ Len(fp2) >= c.minimum_overlap
    /\ quick_filter(c, fp1, fp2)

\* C26: find_best_alignment returns an offset within 2 of k0, the better of
\* the histogram's and the correlation's estimate (the histogram's on a
\* tie), and within max_alignment_offset, whose similarity is the highest
\* of the offsets k0 - 2 .. k0 + 2 within the bound.
C26_FineTuneNearCoarse ==
    (call.op = "compare" /\ Aligned(comparator, call.fp1, call.fp2)) =>
        BestNearCoarse(comparator, call.fp1, call.fp2,
                       CoarseOffset(comparator, call.fp1, call.fp2),
                       call.result.best_offset)

(***************************************************************************)
(* Properties of the segment matches (specification SpecCmp).               *)
(***************************************************************************)
\* entries ordered by similarity, highest first
SimilarityDescending(segment_matches) ==
    \A i \in 1..(Len(segment_matches) - 1) :
        FracLe(segment_matches[i + 1][2], segment_matches[i][2])

\* the offsets of any two entries are at least 30 apart
OffsetsApart(segment_matches) ==
    \A i \in 1..Len(segment_matches) : \A j \in 1..Len(segment_matches) :
        i # j => Abs(segment_matches[i][1] - segment_matches[j][1]) >= 30

\* every entry is the match of a window position of fp1 of its own
OnePerWindow(segment_matches, window_matches) ==
    \E position \in [1..Len(segment_matches) -> 1..Len(window_matches)] :
        /\ \A i \in 1..Len(segment_matches) : \A j \in 1..Len(segment_matches) :
               i # j => position[i] # position[j]
        /\ \A i \in 1..Len(segment_matches) :
               segment_matches[i] = window_matches[position[i]]

\* every match recorded is within 30 of a retained entry (itself, when it
\* is retained) whose similarity is at least as high
DroppedOnlyNearBetter(segment_matches, recorded) ==
    \A k \in 1..Len(recorded) :
        \E e \in 1..Len(segment_matches) :
            /\ Abs(recorded[k][1] - segment_matches[e][1]) < 30
            /\ FracLe(recorded[k][2], segment_matches[e][2])

\* the windows of fp1 the call slid over fp2 (none when a fingerprint is
\* shorter than a window)
WindowsOf(c, fp1, fp2) ==
    IF Len(fp1) < WINDOW_SIZE \/ Len(fp2) < WINDOW_SIZE THEN <<>>
    ELSE Stored(WindowMatches(c, fp1, fp2))

\* C28: the segment_matches compare_sliding_window returns are ordered by
\* similarity (non-increasing), each has a similarity of at least 0.8 times
\* the similarity threshold, the offsets of any two are at least 30 apart,
\* there is at most one per window position of fp1, and a candidate is
\* dropped only if its offset is within 30 of a retained entry whose
\* similarity is at least as high.
C28_SegmentMatchesFiltered ==
    (call.op = "compare_sliding_window" /\ Aligned(comparator, call.fp1, call.fp2)) =>
        /\ SimilarityDescending(call.result.segment_matches)
        /\ \A i \in 1..Len(call.result.segment_matches) :
               NearThreshold(comparator, call.result.segment_matches[i][2])
        /\ OffsetsApart(call.result.segment_matches)
        /\ OnePerWindow(call.result.segment_matches,
                        WindowsOf(comparator, call.fp1, call.fp2))
        /\ DroppedOnlyNearBetter(call.result.segment_matches,
                                 RecordedMatches(comparator,
                                     WindowsOf(comparator, call.fp1, call.fp2)))

\* A call returned two matches of different similarity after it dropped a
\* candidate.
C28_Witness ==
    /\ call.op = "compare_sliding_window"
    /\ Aligned(comparator, call.fp1, call.fp2)
    /\ Len(call.result.segment_matches) >= 2
    /\ FracLt(call.result.segment_matches[2][2], call.result.segment_matches[1][2])
    /\ Len(call.result.segment_matches)
           < Len(RecordedMatches(comparator, WindowsOf(comparator, call.fp1, call.fp2)))

(***************************************************************************)
(* Properties of the memory pool.                                           *)
(***************************************************************************)
\* no block a caller holds has been given back to the allocator
HeldLive == \A holding \in held.by : holding.ptr \in heap.live

\* no block is held by two callers
HeldOnce ==
    \A a \in held.by : \A b \in held.by : a.ptr = b.ptr => a = b

\* getStats: current_usage = total_allocated_ - total_deallocated_
UsageNotNegative == CurrentUsage(pool) >= 0

\* C30: after any sequence of allocate, deallocate (of pointers returned and
\* not yet deallocated), clear and setEnabled, a block a caller holds has
\* not been freed and is not held by a second caller, and the current usage
\* is not below zero.
C30_HeldBlocksSafe == HeldLive /\ HeldOnce /\ UsageNotNegative

============================================================================
